---- MODULE Spec2Model ----
(***************************************************************************)
(* A model of the pypjs payment panel (src/src/payment-panel.ts): the      *)
(* PaymentPanel custom element, the shadow DOM state its handlers read     *)
(* back (the #amount text, the display of the password section and of the  *)
(* action buttons, the rendered selection list, the show classes), the     *)
(* observed attributes of the host element, and the events it dispatches.  *)
(*                                                                         *)
(* Conventions.                                                            *)
(*  - A JS string whose characters matter (an amount, an attribute value,  *)
(*    a password) is a sequence of one-character strings.                  *)
(*  - A JS number that may have decimals (amount, closeThreshold,          *)
(*    closeThresholdPercent, velocityThreshold) is an integer number of    *)
(*    hundredths: 0.3 is 30, 100 px is 10000.  passwordLength is a plain   *)
(*    integer.                                                             *)
(*  - An optional value is a sequence: <<>> is undefined, <<v>> is v.      *)
(*  - A JS object with identity (an item, a method) carries a ref field.   *)
(*  - The methods of the class are operators from a state record (the      *)
(*    fields of `this` together with the DOM state) to a state record;     *)
(*    an action applies one public method or one DOM event handler to the  *)
(*    current state and commits the result.                                *)
(***************************************************************************)
EXTENDS Integers, Sequences, FiniteSets, TLC

VARIABLES
  panel,   \* the fields of the PaymentPanel instance (`this`)
  dom,     \* the shadow DOM, host attributes and document state the code reads and writes
  out,     \* what the last call did that the host can observe: events, thrown error
  hist     \* what the host did so far, as far as the properties need it

vars == <<panel, dom, out, hist>>

-----------------------------------------------------------------------------
(* Characters, strings and numbers *)

DigitChars == <<"0", "1", "2", "3", "4", "5", "6", "7", "8", "9">>

IsDigit(c) == \E i \in 1..10 : DigitChars[i] = c

DigitVal(c) == (CHOOSE i \in 1..10 : DigitChars[i] = c) - 1

IsSpace(c) == c = " "

\* the number of consecutive white space characters of str from position i
RECURSIVE WsRun(_, _)
WsRun(str, i) ==
  IF i <= Len(str) /\ IsSpace(str[i]) THEN 1 + WsRun(str, i + 1) ELSE 0

\* the number of consecutive white space characters of str ending at position i
RECURSIVE WsRunBack(_, _)
WsRunBack(str, i) ==
  IF i >= 1 /\ IsSpace(str[i]) THEN 1 + WsRunBack(str, i - 1) ELSE 0

\* the number of consecutive digits of str from position i
RECURSIVE DigitRun(_, _)
DigitRun(str, i) ==
  IF i <= Len(str) /\ IsDigit(str[i]) THEN 1 + DigitRun(str, i + 1) ELSE 0

\* the value of the n digits of str from position i
RECURSIVE DigitsValue(_, _, _)
DigitsValue(str, i, n) ==
  IF n = 0 THEN 0
  ELSE DigitsValue(str, i, n - 1) * 10 + DigitVal(str[i + n - 1])

\* String.prototype.trim
Trim(str) ==
  LET lead == WsRun(str, 1)
      trail == IF lead = Len(str) THEN 0 ELSE WsRunBack(str, Len(str))
  IN SubSeq(str, lead + 1, Len(str) - trail)

\* the decimal digits of a natural number
RECURSIVE NatToStr(_)
NatToStr(n) ==
  IF n < 10 THEN <<DigitChars[n + 1]>>
  ELSE NatToStr(n \div 10) \o <<DigitChars[(n % 10) + 1]>>

\* String(n) of an integer
IntToStr(n) == IF n < 0 THEN <<"-">> \o NatToStr(-n) ELSE NatToStr(n)

Abs(n) == IF n < 0 THEN -n ELSE n

\* String(x) of a number given in hundredths: no trailing zeros, no point for an integer
NumToStr(h) ==
  LET a == Abs(h)
      ip == a \div 100
      fp == a % 100
      frac == IF fp = 0 THEN <<>>
              ELSE IF fp % 10 = 0 THEN <<".", DigitChars[(fp \div 10) + 1]>>
              ELSE <<".", DigitChars[(fp \div 10) + 1], DigitChars[(fp % 10) + 1]>>
  IN (IF h < 0 THEN <<"-">> ELSE <<>>) \o NatToStr(ip) \o frac

\* Number.prototype.toFixed(2) of a number given in hundredths
ToFixed2(h) ==
  LET a == Abs(h)
  IN (IF h < 0 THEN <<"-">> ELSE <<>>) \o NatToStr(a \div 100)
       \o <<".", DigitChars[((a % 100) \div 10) + 1], DigitChars[(a % 10) + 1]>>

\* parseFloat: leading white space, a sign, digits, a point and digits; what follows
\* is ignored; NaN when there is no digit.  The value is in hundredths (fraction
\* digits after the second are dropped: the inputs of the model have at most two).
ParseFloat(str) ==
  LET i0 == 1 + WsRun(str, 1)
      signed == i0 <= Len(str) /\ str[i0] \in {"-", "+"}
      neg == signed /\ str[i0] = "-"
      i1 == IF signed THEN i0 + 1 ELSE i0
      nInt == DigitRun(str, i1)
      i2 == i1 + nInt
      hasDot == i2 <= Len(str) /\ str[i2] = "."
      nFrac == IF hasDot THEN DigitRun(str, i2 + 1) ELSE 0
      d1 == IF nFrac >= 1 THEN DigitVal(str[i2 + 1]) ELSE 0
      d2 == IF nFrac >= 2 THEN DigitVal(str[i2 + 2]) ELSE 0
      mag == DigitsValue(str, i1, nInt) * 100 + d1 * 10 + d2
  IN IF nInt + nFrac = 0 THEN [nan |-> TRUE, v |-> 0]
     ELSE [nan |-> FALSE, v |-> IF neg THEN -mag ELSE mag]

\* parseInt (radix 10): leading white space, a sign, digits; NaN when there is no digit
ParseInt(str) ==
  LET i0 == 1 + WsRun(str, 1)
      signed == i0 <= Len(str) /\ str[i0] \in {"-", "+"}
      neg == signed /\ str[i0] = "-"
      i1 == IF signed THEN i0 + 1 ELSE i0
      nInt == DigitRun(str, i1)
      mag == DigitsValue(str, i1, nInt)
  IN IF nInt = 0 THEN [nan |-> TRUE, v |-> 0]
     ELSE [nan |-> FALSE, v |-> IF neg THEN -mag ELSE mag]

\* parseFloat(x) || d  and  parseInt(x) || d : NaN and 0 are falsy
OrDefault(p, d) == IF p.nan \/ p.v = 0 THEN d ELSE p.v

\* a velocity in px/ms is the quotient of a distance in px and a time in ms
NoVelocity == [dist |-> 0, time |-> 1]

\* velocity > threshold, the threshold being given in hundredths of px/ms
Faster(velocity, threshold) == velocity.dist * 100 > threshold * velocity.time

Min(a, b) == IF a < b THEN a ELSE b

Max(a, b) == IF a > b THEN a ELSE b

-----------------------------------------------------------------------------
(* Program constants *)

\* keyboardMapping entries are strings: one-character strings are <<c>>
DefaultKeyboardMapping == [i \in 1..10 |-> <<DigitChars[i]>>]

DEFAULT_CONFIG ==
  [allowSwipeToClose |-> TRUE,
   closeThreshold |-> 10000,
   closeThresholdPercent |-> 30,
   velocityThreshold |-> 50,
   closeOnOverlayClick |-> TRUE,
   enablePassword |-> FALSE,
   passwordLength |-> 6,
   iconDisplay |-> "always",
   autoCloseOnConfirm |-> FALSE,
   allowConfirmWithoutSelections |-> TRUE,
   hideSelections |-> FALSE,
   amountAlign |-> "left",
   amountFont |-> "",
   textFont |-> "",
   language |-> "en",
   themeMode |-> "auto",
   keyboardMapping |-> DefaultKeyboardMapping]

DEFAULT_PAYMENT_METHODS == <<>>

DEFAULT_FIELD_MAPPING ==
  [titleField |-> <<"title">>, subtitleField |-> <<"subtitle">>,
   iconField |-> <<"icon">>, valueField |-> <<"value">>]

observedAttributes ==
  {"close-threshold", "close-threshold-percent", "velocity-threshold",
   "close-on-overlay-click", "enable-password", "password-length"}

\* the text of the #amount element in the template of render()
TemplateAmount == <<"0", ".", "0", "0">>

-----------------------------------------------------------------------------
(* JS values *)

Some(v) == <<v>>

None == <<>>

IsSome(o) == o # <<>>

\* item[field] of an item or method: None when the object has no such field
Field(obj, name) == IF name \in DOMAIN obj.f THEN Some(obj.f[name]) ELSE None

\* a || b on optional numbers: undefined and 0 are falsy
OrElse(a, b) == IF a = None \/ a = Some(0) THEN b ELSE a

\* Map.get(i) || []
MapGet(m, i) == IF i \in DOMAIN m THEN m[i] ELSE <<>>

\* Map.set(i, v)
MapSet(m, i, v) == [j \in DOMAIN m \cup {i} |-> IF j = i THEN v ELSE m[j]]

EmptyMap == [j \in {} |-> <<>>]

\* Array.prototype.includes, on object identity
Includes(list, obj) == \E k \in 1..Len(list) : list[k].ref = obj.ref

\* Array.prototype.filter(i => i !== obj)
RECURSIVE Without(_, _)
Without(list, obj) ==
  IF list = <<>> THEN <<>>
  ELSE IF Head(list).ref = obj.ref THEN Without(Tail(list), obj)
  ELSE <<Head(list)>> \o Without(Tail(list), obj)

NoChildren == [kind |-> "none", list |-> <<>>]

\* a truthy children property: an array (also an empty one), a function or a promise
HasChildren(m) == m.children.kind # "none"

BlankList == [kind |-> "blank", items |-> <<>>, headers |-> <<>>]

EmptyStateList == [kind |-> "empty", items |-> <<>>, headers |-> <<>>]

-----------------------------------------------------------------------------
(* Events and the confirmation flow *)

\* the listeners of the element for an event type, in the order they were added, each
\* as the delivery it receives
RECURSIVE deliveries(_, _)
deliveries(listeners, type) ==
  IF listeners = <<>> THEN <<>>
  ELSE (IF Head(listeners).event = type
        THEN <<[handler |-> Head(listeners).handler, type |-> type]>> ELSE <<>>)
       \o deliveries(Tail(listeners), type)

\* EventTarget.dispatchEvent: the event reaches the host's listeners synchronously
dispatchEvent(s, ev) ==
  [s EXCEPT !.emitted = Append(@, ev),
            !.delivered = @ \o deliveries(s.listeners, ev.type)]

\* EventTarget.addEventListener: a listener with the same type and callback as one of
\* the list is not added again
addEventListener(s, event, handler) ==
  IF \E n \in 1..Len(s.listeners) :
       s.listeners[n] = [event |-> event, handler |-> handler]
  THEN s
  ELSE [s EXCEPT !.listeners = Append(@, [event |-> event, handler |-> handler])]

\* a removeEventListener that removes nothing
keepEventListener(s, event, handler) == s

\* EventTarget.removeEventListener
removeEventListener(s, event, handler) ==
  [s EXCEPT !.listeners =
     SelectSeq(@, LAMBDA l : l # [event |-> event, handler |-> handler])]

\* pypjs.on(event, handler): removes the handler, then adds it
on(s, event, handler) ==
  addEventListener(removeEventListener(s, event, handler), event, handler)

\* pypjs.off(event, handler)
off(s, event, handler) == removeEventListener(s, event, handler)

CloseEvent == [type |-> "close"]

\* a close that leaves the page's scroll lock in place
closeKeepingScrollLock(s) ==
  IF ~s.isOpen THEN s
  ELSE dispatchEvent([s EXCEPT !.isOpen = FALSE, !.isDragging = FALSE,
                               !.overlayShow = FALSE, !.panelShow = FALSE],
                     CloseEvent)

\* close(): no-op when closed; restores the scroll lock and the drag visuals
close(s) ==
  IF ~s.isOpen THEN s
  ELSE dispatchEvent(
         [s EXCEPT !.isOpen = FALSE,
                   !.isDragging = FALSE,
                   !.bodyOverflow = "",
                   !.overlayShow = FALSE,
                   !.overlayOpacity = None,
                   !.panelShow = FALSE,
                   !.panelDragging = FALSE,
                   !.panelTransform = None],
         CloseEvent)

\* the gate of confirmPayment and updatePasswordUI:
\* (selectionSections && selectionSections.length > 0) || (paymentMethods && paymentMethods.length > 0)
hasSelections(s) == Len(s.selectionSections) > 0 \/ Len(s.paymentMethods) > 0

\* fieldMapping.valueField || 'value'
valueFieldOf(s) ==
  IF s.fieldMapping.valueField = None \/ s.fieldMapping.valueField = Some("")
  THEN "value" ELSE s.fieldMapping.valueField[1]

Val(n) == [isObj |-> FALSE, v |-> n, ref |-> ""]

ObjVal(obj) == [isObj |-> TRUE, v |-> 0, ref |-> obj.ref]

\* item[valueField], and when that is undefined item.value || item.id || item
resolveValue(obj, valueField) ==
  LET direct == Field(obj, valueField)
      fallback == OrElse(Field(obj, "value"), Field(obj, "id"))
  IN IF direct # None THEN Val(direct[1])
     ELSE IF fallback = None \/ fallback = Some(0) THEN ObjVal(obj)
     ELSE Val(fallback[1])

\* a property name that ignores the section's key
sectionKeyIndexOnly(section, index) == DigitChars[index + 1]

\* the property name under which a section's selection is reported
sectionKeyOf(section, index) ==
  IF section.key # None THEN section.key[1] ELSE DigitChars[index + 1]

RECURSIVE MapValues(_, _)
MapValues(list, valueField) ==
  IF list = <<>> THEN <<>>
  ELSE <<resolveValue(Head(list), valueField)>> \o MapValues(Tail(list), valueField)

\* the forEach of confirmPayment over the sections 0 .. n-1: a later section with
\* the same key overwrites the property
RECURSIVE buildSelections(_, _)
buildSelections(s, n) ==
  IF n = 0 THEN [values |-> [k \in {} |-> <<>>], data |-> [k \in {} |-> <<>>]]
  ELSE LET prev == buildSelections(s, n - 1)
           index == n - 1
           section == s.selectionSections[n]
           key == sectionKeyOf(section, index)
           selectedInSection == MapGet(s.selectedItems, index)
           values == MapValues(selectedInSection, valueFieldOf(s))
       IN IF Len(selectedInSection) > 0
          THEN [values |-> MapSet(prev.values, key,
                             [multiple |-> section.multiple,
                              values |-> IF section.multiple THEN values
                                         ELSE <<values[1]>>]),
                data |-> MapSet(prev.data, key,
                           IF section.multiple THEN selectedInSection
                           ELSE <<selectedInSection[1]>>)]
          ELSE prev

\* the backward-compatible single selection of confirmPayment
legacySelectionData(s) ==
  IF Cardinality(DOMAIN s.selectedItems) > 0
  THEN LET firstSectionItems == MapGet(s.selectedItems, 0)
       IN IF Len(firstSectionItems) > 0 THEN Some(firstSectionItems[1]) ELSE None
  ELSE s.selectedMethod

\* the body of confirmPayment after its gate: the amount is read back from the #amount
\* element, the event is dispatched, and the panel closes when autoCloseOnConfirm holds
dispatchConfirm(s, password) ==
  LET sel == buildSelections(s, Len(s.selectionSections))
      legacyData == legacySelectionData(s)
      legacy == IF legacyData = None THEN None
                ELSE Some(resolveValue(legacyData[1], valueFieldOf(s)))
      detail == [selections |-> sel.values,
                 selectionsData |-> sel.data,
                 amount |-> IF s.amountText = <<>> THEN TemplateAmount ELSE s.amountText,
                 selection |-> legacy,
                 selectionData |-> legacyData,
                 method |-> legacy,
                 methodData |-> legacyData,
                 password |-> password]
  IN IF s.autoCloseOnConfirm
     THEN close(dispatchEvent(s, [type |-> "confirm", detail |-> detail]))
     ELSE dispatchEvent(s, [type |-> "confirm", detail |-> detail])

\* confirmPayment(password?): returns at once when there are no selections and
\* confirming without selections is not allowed
confirmPayment(s, password) ==
  IF ~hasSelections(s) /\ ~s.allowConfirmWithoutSelections THEN s
  ELSE dispatchConfirm(s, password)

\* checkPasswordComplete(): confirm with the buffer when it has the configured length
checkPasswordComplete(s) ==
  IF Len(s.currentPassword) = s.passwordLength
  THEN [confirmPayment(s, Some(s.currentPassword)) EXCEPT !.currentPassword = <<>>]
  ELSE s

\* updatePasswordUI(): which of the password section and the action buttons is displayed
updatePasswordUI(s) ==
  IF ~hasSelections(s) /\ ~s.allowConfirmWithoutSelections
  THEN [s EXCEPT !.passwordSectionDisplay = "none", !.actionsDisplay = "none"]
  ELSE IF s.enablePassword
  THEN [s EXCEPT !.passwordSectionDisplay = "block", !.actionsDisplay = "none"]
  ELSE [s EXCEPT !.passwordSectionDisplay = "none", !.actionsDisplay = "flex"]

-----------------------------------------------------------------------------
(* Rendering.  Of the markup only what handlers read back or what decides which  *)
(* elements a user can reach is kept: label texts, fonts, icons and the password *)
(* dots are not part of the state.                                               *)

\* updateSelectionSectionsVisibility(), and its legacy alias updatePaymentMethodsVisibility()
updateSelectionSectionsVisibility(s) ==
  [s EXCEPT !.selectionsDisplay = IF s.hideSelections THEN "none" ELSE ""]

IsSelectedMethod(s, m) == s.selectedMethod # None /\ s.selectedMethod[1].ref = m.ref

\* the children rendered for the group at index g: the cached ones, else a direct array
childrenToRender(s, g) ==
  LET method == s.paymentMethods[g + 1]
  IN IF g \in DOMAIN s.loadedChildren THEN s.loadedChildren[g]
     ELSE IF method.children.kind = "array" THEN method.children.list
     ELSE <<>>

\* the .payment-method elements of the children of group g, data-index from `from`
childItems(s, g, from) ==
  LET ch == childrenToRender(s, g)
  IN [k \in 1..Len(ch) |->
        [sec |-> g, idx |-> from + k - 1, sel |-> IsSelectedMethod(s, ch[k])]]

\* the map over paymentMethods of renderPaymentMethods, for the first n methods
RECURSIVE methodsMarkup(_, _)
methodsMarkup(s, n) ==
  IF n = 0 THEN [items |-> <<>>, headers |-> <<>>, itemIndex |-> 0]
  ELSE LET prev == methodsMarkup(s, n - 1)
           groupIndex == n - 1
           method == s.paymentMethods[n]
       IN IF HasChildren(method)
          THEN LET items == childItems(s, groupIndex, prev.itemIndex)
               IN [items |-> prev.items \o items,
                   headers |-> Append(prev.headers,
                                 [group |-> groupIndex,
                                  expanded |-> groupIndex \in s.expandedGroups,
                                  loading |-> groupIndex \in s.loadingGroups]),
                   itemIndex |-> prev.itemIndex + Len(items)]
          ELSE [items |-> Append(prev.items,
                            [sec |-> -1, idx |-> prev.itemIndex,
                             sel |-> IsSelectedMethod(s, method)
                                      \/ (prev.itemIndex = 0 /\ s.selectedMethod = None)]),
                headers |-> prev.headers,
                itemIndex |-> prev.itemIndex + 1]

\* renderPaymentMethods(): nothing is drawn while the list is hidden
renderPaymentMethods(s) ==
  LET s1 == updateSelectionSectionsVisibility(s)
  IN IF s1.hidePaymentMethods THEN s1
     ELSE IF Len(s1.paymentMethods) = 0 THEN [s1 EXCEPT !.list = EmptyStateList]
     ELSE LET m == methodsMarkup(s1, Len(s1.paymentMethods))
          IN [s1 EXCEPT !.list = [kind |-> "methods", items |-> m.items,
                                  headers |-> m.headers]]

\* the .selection-item elements of the first n sections; sections without items are skipped
RECURSIVE sectionsMarkup(_, _)
sectionsMarkup(s, n) ==
  IF n = 0 THEN <<>>
  ELSE LET sectionIndex == n - 1
           items == s.selectionSections[n].items
           selectedInSection == MapGet(s.selectedItems, sectionIndex)
       IN sectionsMarkup(s, n - 1) \o
          [k \in 1..Len(items) |->
             [sec |-> sectionIndex, idx |-> k - 1,
              sel |-> Includes(selectedInSection, items[k])]]

\* renderSelectionSections(): the legacy tree is drawn instead when it is not empty
renderSelectionSections(s) ==
  IF Len(s.paymentMethods) > 0 THEN renderPaymentMethods(s)
  ELSE LET s1 == updateSelectionSectionsVisibility(s)
       IN IF s1.hideSelections THEN s1
          ELSE IF Len(s1.selectionSections) = 0 THEN [s1 EXCEPT !.list = EmptyStateList]
          ELSE [s1 EXCEPT !.list =
                  [kind |-> "sections",
                   items |-> sectionsMarkup(s1, Len(s1.selectionSections)),
                   headers |-> <<>>]]

\* render(): replaces the whole shadow tree by the template, so every element is new:
\* the amount reads 0.00, the password section is display:none, the actions have no
\* inline display, nothing carries the show class or a listener
render(s) ==
  renderSelectionSections(
    [s EXCEPT !.amountText = TemplateAmount,
              !.passwordSectionDisplay = "none",
              !.actionsDisplay = "",
              !.selectionsDisplay = "",
              !.list = BlankList,
              !.overlayShow = FALSE,
              !.overlayOpacity = None,
              !.overlayClick = FALSE,
              !.panelShow = FALSE,
              !.panelDragging = FALSE,
              !.panelTransform = None,
              !.panelDragListeners = FALSE,
              !.dragHandleHidden = FALSE])

\* setupDragListeners(): listeners on the handle, header and panel, and on the document
setupDragListeners(s) ==
  IF ~s.allowSwipeToClose THEN s
  ELSE [s EXCEPT !.panelDragListeners = TRUE, !.docDragListeners = TRUE]

\* setupEventListeners(): the overlay closes on click only when configured at this point;
\* the close, cancel and confirm buttons and the panel get their click handlers
setupEventListeners(s) ==
  setupDragListeners([s EXCEPT !.overlayClick = @ \/ s.closeOnOverlayClick])

\* updateThemeMode() with applyTheme(): data-theme follows the mode or the system
updateThemeMode(s) ==
  [s EXCEPT !.systemThemeListener = (s.themeMode = "auto"),
            !.dataTheme = IF s.themeMode = "auto"
                          THEN (IF s.systemDark THEN "dark" ELSE "light")
                          ELSE IF s.themeMode = "dark" THEN "dark" ELSE "light"]

\* updateDragHandleVisibility()
updateDragHandleVisibility(s) == [s EXCEPT !.dragHandleHidden = ~s.allowSwipeToClose]

\* updateI18nTexts(): sets the label texts, and redraws the legacy list unless a
\* custom empty-state text is set
updateI18nTexts(s) ==
  IF s.emptyStateText = None \/ s.emptyStateText = Some("") THEN renderPaymentMethods(s)
  ELSE s

-----------------------------------------------------------------------------
(* Lifecycle and amount *)

\* an amount argument: a number (finite, NaN or Infinity), a string, or undefined
NumberArg(h) == [type |-> "number", kind |-> "finite", v |-> h, str |-> <<>>]

NaNArg == [type |-> "number", kind |-> "NaN", v |-> 0, str |-> <<>>]

StringArg(str) == [type |-> "string", kind |-> "", v |-> 0, str |-> str]

UndefinedArg == [type |-> "undefined", kind |-> "", v |-> 0, str |-> <<>>]

\* convertAmountToNumber(amount): err stands for the thrown Error
convertAmountToNumber(amount) ==
  IF amount.type = "number"
  THEN [err |-> amount.kind # "finite", v |-> amount.v]
  ELSE IF amount.type = "string"
  THEN LET trimmed == Trim(amount.str)
           num == ParseFloat(trimmed)
       IN IF trimmed = <<>> THEN [err |-> TRUE, v |-> 0]
          ELSE [err |-> num.nan, v |-> num.v]
  ELSE [err |-> TRUE, v |-> 0]

\* the reset of the Selection Store at the head of open()
resetStore(s) ==
  renderSelectionSections(
    [s EXCEPT !.selectionSections = <<>>,
              !.paymentMethods = DEFAULT_PAYMENT_METHODS,
              !.fieldMapping = DEFAULT_FIELD_MAPPING,
              !.selectedItems = EmptyMap,
              !.selectedMethod = None])

\* open(amount?): the amount is converted after the panel was marked open; the show
\* classes are added in the next animation frame
open(s, amount) ==
  IF s.isOpen THEN s
  ELSE
    LET s1 == IF ~s.hasCustomSelections /\ ~s.hasCustomPaymentMethods
              THEN resetStore(s) ELSE s
        s2 == [s1 EXCEPT !.hasCustomSelections = FALSE,
                         !.hasCustomPaymentMethods = FALSE,
                         !.isOpen = TRUE,
                         !.bodyOverflow = "hidden"]
        numAmount == convertAmountToNumber(amount)
    IN IF amount.type # "undefined" /\ numAmount.err
       THEN [s2 EXCEPT !.threw = "InvalidAmount"]
       ELSE [s2 EXCEPT !.amountText = IF amount.type # "undefined"
                                      THEN ToFixed2(numAmount.v) ELSE @,
                       !.rafPending = @ + 1]

\* the requestAnimationFrame callback of open()
animationFrame(s) ==
  [s EXCEPT !.rafPending = @ - 1, !.overlayShow = TRUE, !.panelShow = TRUE]

\* setAmount(amount)
setAmount(s, amount) ==
  LET numAmount == convertAmountToNumber(amount)
  IN IF numAmount.err THEN [s EXCEPT !.threw = "InvalidAmount"]
     ELSE [s EXCEPT !.amountText = ToFixed2(numAmount.v)]

-----------------------------------------------------------------------------
(* Observed attributes *)

StrFalse == <<"f", "a", "l", "s", "e">>

StrTrue == <<"t", "r", "u", "e">>

\* String(b) of a boolean
BoolToStr(b) == IF b THEN StrTrue ELSE StrFalse

\* attributeChangedCallback(name, oldValue, newValue): values are None (null) or Some(string)
attributeChangedCallback(s, name, oldValue, newValue) ==
  IF oldValue = newValue THEN s
  ELSE LET str == IF newValue = None THEN <<>> ELSE newValue[1]
       IN CASE name = "close-threshold" ->
                 [s EXCEPT !.closeThreshold = OrDefault(ParseFloat(str), 10000)]
            [] name = "close-threshold-percent" ->
                 [s EXCEPT !.closeThresholdPercent = OrDefault(ParseFloat(str), 30)]
            [] name = "velocity-threshold" ->
                 [s EXCEPT !.velocityThreshold = OrDefault(ParseFloat(str), 50)]
            [] name = "close-on-overlay-click" ->
                 [s EXCEPT !.closeOnOverlayClick = (newValue # Some(StrFalse))]
            [] name = "enable-password" ->
                 [s EXCEPT !.enablePassword = (newValue # Some(StrFalse))]
            [] name = "password-length" ->
                 [s EXCEPT !.passwordLength = OrDefault(ParseInt(str), 6)]
            [] OTHER -> s

\* Element.setAttribute on the custom element: stores the value and, for an observed
\* attribute, runs attributeChangedCallback before it returns
setAttribute(s, name, value) ==
  LET oldValue == s.attrs[name]
  IN attributeChangedCallback([s EXCEPT !.attrs[name] = Some(value)],
                              name, oldValue, Some(value))

-----------------------------------------------------------------------------
(* Selection Store *)

\* the value an item is compared on against a section's defaultValue
defaultMatchValue(item, valueField) ==
  IF Field(item, valueField) # None THEN Field(item, valueField)
  ELSE IF Field(item, "value") # None THEN Field(item, "value")
  ELSE Field(item, "id")

\* items.find(...) || null : the first item whose value equals defaultValue
findDefaultItem(section, valueField) ==
  LET hits == {k \in 1..Len(section.items) :
                 defaultMatchValue(section.items[k], valueField) = section.defaultValue}
  IN IF section.defaultValue = None \/ hits = {} THEN None
     ELSE Some(section.items[CHOOSE k \in hits : \A j \in hits : k <= j])

\* a default that ignores defaultValue
defaultItemFirst(section, valueField) == section.items[1]

\* the default item of a single-select section with items: the match, else the first item
defaultItemOf(section, valueField) ==
  LET found == findDefaultItem(section, valueField)
  IN IF found # None THEN found[1] ELSE section.items[1]

\* the forEach of setSelectionSections that pre-selects, for the first n sections
RECURSIVE defaultSelections(_, _, _)
defaultSelections(sections, valueField, n) ==
  IF n = 0 THEN EmptyMap
  ELSE LET prev == defaultSelections(sections, valueField, n - 1)
           section == sections[n]
       IN IF ~section.multiple /\ Len(section.items) > 0
          THEN MapSet(prev, n - 1, <<defaultItemOf(section, valueField)>>)
          ELSE prev

\* setSelectionSections(sections?, fieldMapping?)
setSelectionSections(s, sections, fieldMapping) ==
  LET s1 == IF sections = None
            THEN [s EXCEPT !.selectionSections = <<>>,
                           !.fieldMapping = DEFAULT_FIELD_MAPPING,
                           !.hasCustomSelections = FALSE]
            ELSE [s EXCEPT !.selectionSections = sections[1],
                           !.fieldMapping = IF fieldMapping = None
                                            THEN DEFAULT_FIELD_MAPPING ELSE fieldMapping[1],
                           !.hasCustomSelections = TRUE]
      s2 == [s1 EXCEPT !.paymentMethods = <<>>, !.hasCustomPaymentMethods = FALSE]
      s3 == [s2 EXCEPT !.selectedItems =
                defaultSelections(s2.selectionSections, valueFieldOf(s2),
                                  Len(s2.selectionSections))]
  IN updatePasswordUI(renderSelectionSections(s3))

\* a flattening that keeps the top-level nodes without a children property only
flattenMethodsTopLevel(methods) == SelectSeq(methods, LAMBDA m : ~HasChildren(m))

\* flattenMethods of setPaymentMethods: follows array children to any depth and keeps
\* the nodes without a children property
RECURSIVE flattenMethods(_)
flattenMethods(methods) ==
  IF methods = <<>> THEN <<>>
  ELSE LET method == Head(methods)
           here == IF method.children.kind = "array" /\ Len(method.children.list) > 0
                   THEN flattenMethods(method.children.list)
                   ELSE IF ~HasChildren(method) THEN <<method>>
                   ELSE <<>>
       IN here \o flattenMethods(Tail(methods))

\* setPaymentMethods(methods?, fieldMapping?): the list is redrawn before the selected
\* method is reset
setPaymentMethods(s, methods, fieldMapping) ==
  LET s1 == IF methods = None
            THEN [s EXCEPT !.paymentMethods = <<>>,
                           !.fieldMapping = DEFAULT_FIELD_MAPPING,
                           !.hasCustomPaymentMethods = FALSE]
            ELSE [s EXCEPT !.paymentMethods = methods[1],
                           !.fieldMapping = IF fieldMapping = None
                                            THEN DEFAULT_FIELD_MAPPING ELSE fieldMapping[1],
                           !.hasCustomPaymentMethods = TRUE]
      s2 == [s1 EXCEPT !.selectionSections = <<>>,
                       !.hasCustomSelections = FALSE,
                       !.loadedChildren = EmptyMap,
                       !.expandedGroups = {},
                       !.loadingGroups = {}]
      s3 == renderSelectionSections(s2)
      allMethods == flattenMethods(s3.paymentMethods)
      s4 == [s3 EXCEPT !.selectedMethod =
                IF Len(s3.paymentMethods) > 0 /\ Len(allMethods) > 0
                THEN Some(allMethods[1]) ELSE None]
  IN updatePasswordUI(s4)

\* getAllMethods(): one level deep, through the cache or a direct array
RECURSIVE allMethodsUpTo(_, _)
allMethodsUpTo(s, n) ==
  IF n = 0 THEN <<>>
  ELSE LET method == s.paymentMethods[n]
           childrenArray == childrenToRender(s, n - 1)
       IN allMethodsUpTo(s, n - 1) \o
          (IF Len(childrenArray) > 0 THEN childrenArray
           ELSE IF ~HasChildren(method) THEN <<method>>
           ELSE <<>>)

getAllMethods(s) == allMethodsUpTo(s, Len(s.paymentMethods))

-----------------------------------------------------------------------------
(* Configuration: point setters *)

\* setCloseThreshold(threshold)
setCloseThreshold(s, threshold) ==
  setAttribute([s EXCEPT !.closeThreshold = threshold],
               "close-threshold", NumToStr(threshold))

\* setCloseThresholdPercent(percent): clamped to 0..1
setCloseThresholdPercent(s, percent) ==
  LET s1 == [s EXCEPT !.closeThresholdPercent = Max(0, Min(100, percent))]
  IN setAttribute(s1, "close-threshold-percent", NumToStr(s1.closeThresholdPercent))

\* setVelocityThreshold(threshold)
setVelocityThreshold(s, threshold) ==
  setAttribute([s EXCEPT !.velocityThreshold = threshold],
               "velocity-threshold", NumToStr(threshold))

\* the overlay is replaced by a clone, which has no listeners, and gets a click
\* listener when closeOnOverlayClick holds
rebindOverlay(s) == [s EXCEPT !.overlayClick = s.closeOnOverlayClick]

\* setCloseOnOverlayClick(close)
setCloseOnOverlayClick(s, cl) ==
  rebindOverlay(setAttribute([s EXCEPT !.closeOnOverlayClick = cl],
                             "close-on-overlay-click", BoolToStr(cl)))

\* setEnablePassword(enable)
setEnablePassword(s, enable) ==
  LET s1 == updatePasswordUI(setAttribute([s EXCEPT !.enablePassword = enable],
                                          "enable-password", BoolToStr(enable)))
  IN IF ~enable THEN [s1 EXCEPT !.currentPassword = <<>>] ELSE s1

\* setPasswordLength(length): limited to 4..12
setPasswordLength(s, length) ==
  LET s1 == [s EXCEPT !.passwordLength = Max(4, Min(12, length))]
      s2 == setAttribute(s1, "password-length", IntToStr(s1.passwordLength))
  IN [s2 EXCEPT !.currentPassword = <<>>]

\* setHeaderTitle(title?)
setHeaderTitle(s, title) == [s EXCEPT !.headerTitle = title]

\* setAmountLabel(label?)
setAmountLabel(s, label) == [s EXCEPT !.amountLabel = label]

\* setEmptyStateText(text?)
setEmptyStateText(s, text) == renderPaymentMethods([s EXCEPT !.emptyStateText = text])

\* a setAutoCloseOnConfirm that also restores closeOnOverlayClick to its default
setAutoCloseOnConfirmAndOverlay(s, autoClose) ==
  [s EXCEPT !.autoCloseOnConfirm = autoClose,
            !.closeOnOverlayClick = DEFAULT_CONFIG.closeOnOverlayClick]

\* setAutoCloseOnConfirm(autoClose)
setAutoCloseOnConfirm(s, autoClose) == [s EXCEPT !.autoCloseOnConfirm = autoClose]

\* setAllowConfirmWithoutSelections(allow), also setAllowConfirmWithoutMethods
setAllowConfirmWithoutSelections(s, allow) ==
  updatePasswordUI([s EXCEPT !.allowConfirmWithoutSelections = allow,
                             !.allowConfirmWithoutMethods = allow])

\* setHideSelections(hide), also setHidePaymentMethods
setHideSelections(s, hide) ==
  updateSelectionSectionsVisibility([s EXCEPT !.hideSelections = hide,
                                              !.hidePaymentMethods = hide])

\* setAmountAlign(align)
setAmountAlign(s, align) == [s EXCEPT !.amountAlign = align]

\* setAmountFont(font)
setAmountFont(s, font) == [s EXCEPT !.amountFont = font]

\* setTextFont(font)
setTextFont(s, font) == [s EXCEPT !.textFont = font]

\* setLanguage(lang)
setLanguage(s, lang) == updateI18nTexts([s EXCEPT !.language = lang])

\* setI18n(i18n)
setI18n(s, i18n) == updateI18nTexts([s EXCEPT !.customI18n = Some(i18n)])

\* setThemeMode(mode)
setThemeMode(s, mode) == updateThemeMode([s EXCEPT !.themeMode = mode])

\* the sequence that follows render() in setTheme and setKeyboardMapping:
\* setupEventListeners, initPasswordInput, updatePasswordUI, the visibility, styles,
\* drag handle and i18n updates, renderPaymentMethods and updateHeaderTitle
rerender(s) ==
  renderPaymentMethods(
    updateI18nTexts(
      updateDragHandleVisibility(
        updateSelectionSectionsVisibility(
          updatePasswordUI(
            setupEventListeners(render(s)))))))

EmptyTheme == [k \in {} |-> ""]

\* setTheme(theme): an empty object resets the theme; the whole component is re-rendered
setTheme(s, theme) ==
  rerender([s EXCEPT !.theme = IF DOMAIN theme = {} THEN EmptyTheme ELSE theme])

\* setKeyboardMapping(mapping): exactly 10 entries, else an Error; re-renders the
\* component when the password section is displayed
setKeyboardMapping(s, mapping) ==
  IF Len(mapping) # 10 THEN [s EXCEPT !.threw = "InvalidKeyboardMapping"]
  ELSE LET s1 == [s EXCEPT !.keyboardMapping = mapping]
       IN IF s1.passwordSectionDisplay # "none" THEN rerender(s1) ELSE s1

-----------------------------------------------------------------------------
(* Configuration: the bulk setter.  A config object is a function from the names  *)
(* of the options it supplies to their values.                                    *)

Has(config, k) == k \in DOMAIN config

\* config.k !== undefined ? config.k : DEFAULT_CONFIG.k
Given(config, k) == IF Has(config, k) THEN config[k] ELSE DEFAULT_CONFIG[k]

\* config.k !== undefined ? config.k : undefined
GivenOpt(config, k) == IF Has(config, k) THEN Some(config[k]) ELSE None

\* a field assignment followed by this.setAttribute(attr, String(this.field))
assignWithAttribute(s, field, attr, v, str) ==
  setAttribute([s EXCEPT ![field] = v], attr, str)

\* setConfig: allowSwipeToClose, with the drag handle and the drag listeners
configSwipe(s, config) ==
  setupDragListeners(updateDragHandleVisibility(
    [s EXCEPT !.allowSwipeToClose = Given(config, "allowSwipeToClose")]))

\* setConfig: closeThreshold
configCloseThreshold(s, config) ==
  LET v == Given(config, "closeThreshold")
  IN assignWithAttribute(s, "closeThreshold", "close-threshold", v, NumToStr(v))

\* setConfig: closeThresholdPercent, clamped to 0..1 when supplied
configCloseThresholdPercent(s, config) ==
  LET v == IF Has(config, "closeThresholdPercent")
           THEN Max(0, Min(100, config["closeThresholdPercent"]))
           ELSE DEFAULT_CONFIG.closeThresholdPercent
  IN assignWithAttribute(s, "closeThresholdPercent", "close-threshold-percent",
                         v, NumToStr(v))

\* setConfig: velocityThreshold
configVelocityThreshold(s, config) ==
  LET v == Given(config, "velocityThreshold")
  IN assignWithAttribute(s, "velocityThreshold", "velocity-threshold", v, NumToStr(v))

\* setConfig: closeOnOverlayClick, and the overlay's click listener
configCloseOnOverlayClick(s, config) ==
  LET v == Given(config, "closeOnOverlayClick")
  IN rebindOverlay(assignWithAttribute(s, "closeOnOverlayClick",
                                       "close-on-overlay-click", v, BoolToStr(v)))

\* if (!this.enablePassword) this.currentPassword = ''
clearPasswordWhenDisabled(s) ==
  IF ~s.enablePassword THEN [s EXCEPT !.currentPassword = <<>>] ELSE s

\* setConfig: enablePassword
configEnablePassword(s, config) ==
  LET v == Given(config, "enablePassword")
  IN clearPasswordWhenDisabled(updatePasswordUI(
       assignWithAttribute(s, "enablePassword", "enable-password", v, BoolToStr(v))))

\* if (config.passwordLength !== undefined) this.currentPassword = ''
clearPasswordWhenLengthGiven(s, config) ==
  IF Has(config, "passwordLength") THEN [s EXCEPT !.currentPassword = <<>>] ELSE s

\* a passwordLength that setConfig keeps when the config does not supply it
configPasswordLengthKept(s, config) ==
  LET v == IF Has(config, "passwordLength")
           THEN Max(4, Min(12, config["passwordLength"]))
           ELSE s.passwordLength
  IN clearPasswordWhenLengthGiven(
       assignWithAttribute(s, "passwordLength", "password-length", v, IntToStr(v)),
       config)

\* setConfig: passwordLength, limited to 4..12 when supplied
configPasswordLength(s, config) ==
  LET v == IF Has(config, "passwordLength")
           THEN Max(4, Min(12, config["passwordLength"]))
           ELSE DEFAULT_CONFIG.passwordLength
  IN clearPasswordWhenLengthGiven(
       assignWithAttribute(s, "passwordLength", "password-length", v, IntToStr(v)),
       config)

\* setConfig: headerTitle, amountLabel
configTexts(s, config) ==
  [s EXCEPT !.headerTitle = GivenOpt(config, "headerTitle"),
            !.amountLabel = GivenOpt(config, "amountLabel")]

\* renderSelectionSections() under if (config.k !== undefined)
renderWhenGiven(s, config, k) == IF Has(config, k) THEN renderSelectionSections(s) ELSE s

\* setConfig: iconDisplay
configIconDisplay(s, config) ==
  renderWhenGiven([s EXCEPT !.iconDisplay = Given(config, "iconDisplay")],
                  config, "iconDisplay")

\* setConfig: emptyStateText
configEmptyStateText(s, config) ==
  renderWhenGiven([s EXCEPT !.emptyStateText = GivenOpt(config, "emptyStateText")],
                  config, "emptyStateText")

\* updatePasswordUI() under if (config.allowConfirmWithoutSelections !== undefined)
updatePasswordUIWhenGiven(s, config) ==
  IF Has(config, "allowConfirmWithoutSelections") THEN updatePasswordUI(s) ELSE s

\* setConfig: autoCloseOnConfirm and allowConfirmWithoutSelections with its legacy twin
configConfirm(s, config) ==
  updatePasswordUIWhenGiven(
    [s EXCEPT
       !.autoCloseOnConfirm = Given(config, "autoCloseOnConfirm"),
       !.allowConfirmWithoutSelections = Given(config, "allowConfirmWithoutSelections"),
       !.allowConfirmWithoutMethods = Given(config, "allowConfirmWithoutSelections")],
    config)

\* updateSelectionSectionsVisibility() under if (config.hideSelections !== undefined)
updateVisibilityWhenGiven(s, config) ==
  IF Has(config, "hideSelections") THEN updateSelectionSectionsVisibility(s) ELSE s

\* setConfig: hideSelections with its legacy twin, and the amount styles
configHideAndStyles(s, config) ==
  updateVisibilityWhenGiven(
    [s EXCEPT !.hideSelections = Given(config, "hideSelections"),
              !.hidePaymentMethods = Given(config, "hideSelections"),
              !.amountAlign = Given(config, "amountAlign"),
              !.amountFont = Given(config, "amountFont"),
              !.textFont = Given(config, "textFont")],
    config)

\* updateI18nTexts() under if (config.language !== undefined || config.i18n !== undefined)
updateI18nWhenGiven(s, config) ==
  IF Has(config, "language") \/ Has(config, "i18n") THEN updateI18nTexts(s) ELSE s

\* setConfig: language and i18n
configLanguage(s, config) ==
  updateI18nWhenGiven([s EXCEPT !.language = Given(config, "language"),
                                !.customI18n = GivenOpt(config, "i18n")],
                      config)

\* setConfig: themeMode; the theme is applied when the mode is supplied or changes
configThemeMode(s, config) ==
  IF Has(config, "themeMode") \/ s.themeMode # Given(config, "themeMode")
  THEN updateThemeMode([s EXCEPT !.themeMode = Given(config, "themeMode")])
  ELSE s

\* setConfig: keyboardMapping, only when supplied
configKeyboardMapping(s, config) ==
  IF Has(config, "keyboardMapping") THEN setKeyboardMapping(s, config["keyboardMapping"])
  ELSE s

\* setConfig: theme, which is not reached when setKeyboardMapping threw
configTheme(s, config) ==
  IF s.threw # "" THEN s
  ELSE setTheme(s, IF Has(config, "theme") THEN config["theme"] ELSE EmptyTheme)

\* setConfig, the swipe, threshold and password options
setConfigBehaviour(s, config) ==
  configPasswordLength(
    configEnablePassword(
      configCloseOnOverlayClick(
        configVelocityThreshold(
          configCloseThresholdPercent(
            configCloseThreshold(
              configSwipe(s, config), config), config), config), config), config), config)

\* setConfig, the texts, policies, styles, language and theme mode
setConfigAppearance(s, config) ==
  configThemeMode(
    configLanguage(
      configHideAndStyles(
        configConfirm(
          configEmptyStateText(
            configIconDisplay(
              configTexts(s, config), config), config), config), config), config), config)

\* setConfig(config): every option is set to the supplied value or to its default,
\* keyboardMapping only when supplied
setConfig(s, config) ==
  configTheme(
    configKeyboardMapping(
      setConfigAppearance(setConfigBehaviour(s, config), config), config), config)

-----------------------------------------------------------------------------
(* DOM event handlers *)

\* this.keyboardMapping[digitIndex] || digit : an empty string is falsy
mappedValue(s, digit) ==
  IF s.keyboardMapping[digit + 1] = <<>> THEN <<DigitChars[digit + 1]>>
  ELSE s.keyboardMapping[digit + 1]

\* the click listener of a number key of the soft keyboard
keyClick(s, digit) ==
  IF Len(s.currentPassword) < s.passwordLength
  THEN checkPasswordComplete(
         [s EXCEPT !.currentPassword = @ \o mappedValue(s, digit)])
  ELSE s

\* the click listener of the delete key
deleteKeyClick(s) ==
  IF Len(s.currentPassword) > 0
  THEN [s EXCEPT !.currentPassword = SubSeq(@, 1, Len(@) - 1)]
  ELSE s

\* the click listener of #confirmBtn
confirmBtnClick(s) == confirmPayment(s, None)

\* the click listeners of #cancelBtn, #closeBtn and of the overlay
closeClick(s) == close(s)

\* a toggle that treats every section as a single-select one
toggleSelectionSingle(section, currentSelections, item) ==
  IF Includes(currentSelections, item) THEN <<>> ELSE <<item>>

\* a toggle that treats every section as a multi-select one
toggleSelectionMultiple(section, currentSelections, item) ==
  IF Includes(currentSelections, item) THEN Without(currentSelections, item)
  ELSE Append(currentSelections, item)

\* the selection of a section after a tap on item: multi-select adds or removes the
\* item, single-select replaces the selection or, on the selected item, empties it
toggleSelection(section, currentSelections, item) ==
  IF section.multiple
  THEN (IF Includes(currentSelections, item) THEN Without(currentSelections, item)
        ELSE Append(currentSelections, item))
  ELSE (IF Includes(currentSelections, item) THEN <<>> ELSE <<item>>)

\* the panel's click listener, for a .selection-item with the given data-section-index
\* and data-item-index
selectionItemClick(s, sectionIndex, itemIndexInSection) ==
  IF sectionIndex + 1 > Len(s.selectionSections) THEN s
  ELSE LET section == s.selectionSections[sectionIndex + 1]
       IN IF itemIndexInSection + 1 > Len(section.items) THEN s
          ELSE LET item == section.items[itemIndexInSection + 1]
                   currentSelections == MapGet(s.selectedItems, sectionIndex)
               IN renderSelectionSections(
                    [s EXCEPT !.selectedItems =
                                 MapSet(@, sectionIndex,
                                        toggleSelection(section, currentSelections, item)),
                              !.currentPassword = <<>>])

\* the panel's click listener, for a .payment-method with the given data-index: the
\* selected class moves to the clicked element
paymentMethodClick(s, index) ==
  LET allMethods == getAllMethods(s)
  IN IF index + 1 > Len(allMethods) THEN s
     ELSE LET target == allMethods[index + 1]
              changed == s.selectedMethod = None \/ s.selectedMethod[1].ref # target.ref
              marked == [k \in DOMAIN s.list.items |->
                           [s.list.items[k] EXCEPT !.sel = (s.list.items[k].idx = index)]]
          IN [s EXCEPT !.currentPassword = IF changed THEN <<>> ELSE @,
                       !.selectedMethod = Some(target),
                       !.list.items = marked]

\* where a pointer can go down: the surfaces of the panel
DragSurfaces == {"handle", "header", "panel"}

PassThroughSurfaces == {"content", "actions", "keyboard", "closeBtn"}

\* a pointer-down handler that starts a drag from any surface
handleDragStartAnywhere(s, target, y) ==
  IF ~s.isOpen \/ ~s.allowSwipeToClose THEN s
  ELSE [s EXCEPT !.isDragging = TRUE,
                 !.startY = y, !.currentY = y, !.lastY = y,
                 !.now = 0, !.startTime = 0, !.lastTime = 0,
                 !.velocity = NoVelocity,
                 !.panelDragging = TRUE]

\* handleDragStart(e): e.target is on the given surface, getY(e) is y.  Date.now() is
\* counted in ms from the pointer-down that starts the drag.
handleDragStart(s, target, y) ==
  IF ~s.isOpen \/ ~s.allowSwipeToClose THEN s
  ELSE IF target \in PassThroughSurfaces THEN s
  ELSE [s EXCEPT !.isDragging = TRUE,
                 !.startY = y, !.currentY = y, !.lastY = y,
                 !.now = 0, !.startTime = 0, !.lastTime = 0,
                 !.velocity = NoVelocity,
                 !.panelDragging = TRUE]

\* 1 - deltaY / panelHeight, not below 0, in hundredths
dragOpacity(deltaY, panelHeight) == Max(0, 100 - (deltaY * 100) \div panelHeight)

\* handleDragMove(e): getY(e) is y, Date.now() has advanced by dt, and the panel's
\* offsetHeight is panelHeight.  A position above the start is ignored.
handleDragMove(s, y, dt, panelHeight) ==
  IF ~s.isDragging THEN s
  ELSE LET currentTime == s.now + dt
           deltaY == y - s.startY
           timeDelta == currentTime - s.lastTime
       IN IF deltaY < 0 THEN [s EXCEPT !.now = currentTime]
          ELSE [s EXCEPT !.now = currentTime,
                         !.velocity = IF timeDelta > 0
                                      THEN [dist |-> Abs(y - s.lastY), time |-> timeDelta]
                                      ELSE @,
                         !.currentY = y, !.lastY = y, !.lastTime = currentTime,
                         !.panelTransform = Some(deltaY),
                         !.overlayOpacity = Some(dragOpacity(deltaY, panelHeight))]

\* a threshold that takes the smaller of the two distances
dragThresholdSmaller(s, panelHeight) ==
  Min(s.closeThreshold, panelHeight * s.closeThresholdPercent)

\* Math.max(this.closeThreshold, panelHeight * this.closeThresholdPercent), in hundredths
\* of a pixel
dragThreshold(s, panelHeight) ==
  Max(s.closeThreshold, panelHeight * s.closeThresholdPercent)

\* a direction test that lets the velocity clause apply whatever the last movement was
finalVelocityAny(s) == TRUE

\* finalVelocity > 0, where finalVelocity is (currentY - lastY) / max(1, lastTime - startTime)
\* when lastY differs from startY and 0 otherwise
finalVelocityPositive(s) ==
  s.lastY # s.startY /\ (s.currentY - s.lastY) > 0

\* shouldClose of handleDragEnd
shouldClose(s, panelHeight) ==
  LET deltaY == s.currentY - s.startY
  IN \/ deltaY * 100 > dragThreshold(s, panelHeight)
     \/ /\ Faster(s.velocity, s.velocityThreshold)
        /\ finalVelocityPositive(s)
        /\ deltaY > 0

\* a bounce that leaves the panel where the drag took it
bounceKeepingOffset(s) == s

\* the bounce back of handleDragEnd
bounceBack(s) == [s EXCEPT !.panelTransform = None, !.overlayOpacity = None]

\* handleDragEnd(e): close or bounce back, then the drag state is reset
handleDragEnd(s, panelHeight) ==
  IF ~s.isDragging THEN s
  ELSE LET released == [s EXCEPT !.isDragging = FALSE, !.panelDragging = FALSE]
           decided == IF shouldClose(released, panelHeight) THEN close(released)
                      ELSE bounceBack(released)
       IN [decided EXCEPT !.startY = 0, !.currentY = 0, !.velocity = NoVelocity]

\* the success path of the asynchronous load started by a header click: the children
\* are cached, the group stops loading and is expanded
loadSucceeded(s, groupIndex, children) ==
  renderPaymentMethods(
    [s EXCEPT !.loadedChildren = MapSet(@, groupIndex, children),
              !.loadingGroups = @ \ {groupIndex},
              !.expandedGroups = @ \cup {groupIndex}])

\* the catch block of the asynchronous load: the error is logged, the group stops loading
loadFailed(s, groupIndex) ==
  renderPaymentMethods([s EXCEPT !.loadingGroups = @ \ {groupIndex}])

\* the asynchronous load up to its await: the children function is called; when it
\* throws the catch block runs at once, else the promise it returned is awaited
startLoad(s, groupIndex, method, throws) ==
  LET called == [s EXCEPT !.invoked = Append(@, method.ref)]
  IN IF throws THEN loadFailed(called, groupIndex)
     ELSE [called EXCEPT !.pendingLoads =
             Append(@, [group |-> groupIndex, ref |-> method.ref,
                        children |-> method.children.list])]

\* method.children && !isChildrenArray && !this.loadedChildren.has(groupIndex)
needsLoading(s, groupIndex, method) ==
  /\ HasChildren(method)
  /\ method.children.kind # "array"
  /\ groupIndex \notin DOMAIN s.loadedChildren

\* a collapse that also drops the cached children
collapseAndForget(s, groupIndex) ==
  renderPaymentMethods([s EXCEPT !.expandedGroups = @ \ {groupIndex},
                                 !.loadedChildren = [j \in DOMAIN @ \ {groupIndex} |-> @[j]]])

\* the collapse branch of the header click
collapseGroup(s, groupIndex) ==
  renderPaymentMethods([s EXCEPT !.expandedGroups = @ \ {groupIndex}])

\* the panel's click listener, for a .payment-method-group-header with the given
\* data-group-header; throws says whether the children function throws when called
groupHeaderClick(s, groupIndex, throws) ==
  IF groupIndex \in s.loadingGroups THEN s
  ELSE IF groupIndex \in s.expandedGroups THEN collapseGroup(s, groupIndex)
  ELSE IF groupIndex + 1 > Len(s.paymentMethods) THEN s
  ELSE LET method == s.paymentMethods[groupIndex + 1]
       IN IF needsLoading(s, groupIndex, method)
          THEN startLoad(renderPaymentMethods(
                           [s EXCEPT !.loadingGroups = @ \cup {groupIndex}]),
                         groupIndex, method, throws)
          ELSE renderPaymentMethods([s EXCEPT !.expandedGroups = @ \cup {groupIndex}])

\* the continuation after `await childrenPromise` of the load at position i of the
\* pending ones: the promise was fulfilled (ok) or rejected
providerSettled(s, i, ok) ==
  LET load == s.pendingLoads[i]
      rest == [s EXCEPT !.pendingLoads =
                 SubSeq(@, 1, i - 1) \o SubSeq(@, i + 1, Len(@))]
  IN IF ok THEN loadSucceeded(rest, load.group, load.children)
     ELSE loadFailed(rest, load.group)

-----------------------------------------------------------------------------
(* The state after construction: the field initialisers and the constructor,    *)
(* then connectedCallback, which runs when getInstance() appends the element to *)
(* the document, before the host can call anything.                             *)

constructed ==
  [isOpen |-> FALSE, isDragging |-> FALSE,
   startY |-> 0, currentY |-> 0, startTime |-> 0, lastY |-> 0, lastTime |-> 0,
   velocity |-> NoVelocity,
   allowSwipeToClose |-> DEFAULT_CONFIG.allowSwipeToClose,
   closeThreshold |-> DEFAULT_CONFIG.closeThreshold,
   closeThresholdPercent |-> DEFAULT_CONFIG.closeThresholdPercent,
   velocityThreshold |-> DEFAULT_CONFIG.velocityThreshold,
   closeOnOverlayClick |-> DEFAULT_CONFIG.closeOnOverlayClick,
   enablePassword |-> DEFAULT_CONFIG.enablePassword,
   passwordLength |-> DEFAULT_CONFIG.passwordLength,
   currentPassword |-> <<>>,
   headerTitle |-> None, amountLabel |-> None,
   iconDisplay |-> DEFAULT_CONFIG.iconDisplay,
   emptyStateText |-> None,
   autoCloseOnConfirm |-> DEFAULT_CONFIG.autoCloseOnConfirm,
   allowConfirmWithoutMethods |-> DEFAULT_CONFIG.allowConfirmWithoutSelections,
   allowConfirmWithoutSelections |-> DEFAULT_CONFIG.allowConfirmWithoutSelections,
   hidePaymentMethods |-> DEFAULT_CONFIG.hideSelections,
   hideSelections |-> DEFAULT_CONFIG.hideSelections,
   amountAlign |-> DEFAULT_CONFIG.amountAlign,
   amountFont |-> DEFAULT_CONFIG.amountFont,
   textFont |-> DEFAULT_CONFIG.textFont,
   language |-> DEFAULT_CONFIG.language,
   customI18n |-> None,
   themeMode |-> DEFAULT_CONFIG.themeMode,
   systemThemeListener |-> FALSE,
   keyboardMapping |-> DefaultKeyboardMapping,
   theme |-> EmptyTheme,
   selectionSections |-> <<>>,
   fieldMapping |-> DEFAULT_FIELD_MAPPING,
   selectedItems |-> EmptyMap,
   hasCustomSelections |-> FALSE,
   paymentMethods |-> DEFAULT_PAYMENT_METHODS,
   selectedMethod |-> None,
   hasCustomPaymentMethods |-> FALSE,
   expandedGroups |-> {},
   loadedChildren |-> EmptyMap,
   loadingGroups |-> {}]

\* the document and the host element before the element is connected
emptyDocument ==
  [attrs |-> [a \in observedAttributes |-> None],
   bodyOverflow |-> "",
   amountText |-> <<>>,
   passwordSectionDisplay |-> "none",
   actionsDisplay |-> "",
   selectionsDisplay |-> "",
   list |-> BlankList,
   overlayShow |-> FALSE, overlayOpacity |-> None, overlayClick |-> FALSE,
   panelShow |-> FALSE, panelDragging |-> FALSE, panelTransform |-> None,
   panelDragListeners |-> FALSE, docDragListeners |-> FALSE,
   dragHandleHidden |-> FALSE,
   dataTheme |-> "light", systemDark |-> FALSE,
   rafPending |-> 0,
   pendingLoads |-> <<>>,
   now |-> 0,
   listeners |-> <<>>]

noOutput == [emitted |-> <<>>, threw |-> "", invoked |-> <<>>, delivered |-> <<>>]

\* connectedCallback(): no attribute is set yet, so the thresholds keep their defaults
connectedCallback(s) ==
  updateDragHandleVisibility(
    updateI18nTexts(
      updateSelectionSectionsVisibility(
        updatePasswordUI(
          updateThemeMode(
            setupEventListeners(render(s)))))))

\* the attributeChangedCallback reactions of an element created with attributes: one
\* per observed attribute that is present, with a null old value
RECURSIVE upgradeAttributes(_, _)
upgradeAttributes(s, names) ==
  IF names = {} THEN s
  ELSE LET name == CHOOSE a \in names : TRUE
       IN upgradeAttributes(attributeChangedCallback(s, name, None, s.attrs[name]),
                            names \ {name})

\* instance.cloneNode(true): a new payment-panel element, built by the constructor,
\* with the attributes of the instance; its shadow tree, its fields and the listeners
\* of the instance are not copied
cloneNode(s) ==
  upgradeAttributes(
    constructed
      @@ [emptyDocument EXCEPT !.attrs = s.attrs, !.bodyOverflow = s.bodyOverflow,
                               !.systemDark = s.systemDark, !.now = s.now]
      @@ [k \in DOMAIN noOutput |-> s[k]],
    observedAttributes)

\* parentNode.replaceChild(newElement, instance), after which globalInstance is the new
\* element: the instance is disconnected, the new element is connected; the frames and
\* loads the old instance awaits no longer reach the page
replaceChild(newElement) == connectedCallback(newElement)

\* pypjs.removeAllListeners(event?): the same replacement in both branches
removeAllListeners(s, event) ==
  IF event # None THEN replaceChild(cloneNode(s))
  ELSE replaceChild(cloneNode(s))

-----------------------------------------------------------------------------
(* The inputs of the model *)

\* the most animation frames that may be pending at once
MaxRaf == 1

ItemA == [ref |-> "A", f |-> [k \in {"value"} |-> 1], children |-> NoChildren]

ItemB == [ref |-> "B", f |-> [k \in {"value", "id"} |-> IF k = "value" THEN 2 ELSE 7],
          children |-> NoChildren]

ItemC == [ref |-> "C", f |-> [k \in {"id"} |-> 3], children |-> NoChildren]

Section(key, multiple, items, defaultValue) ==
  [key |-> key, multiple |-> multiple, items |-> items, defaultValue |-> defaultValue]

SecSingle == Section(None, FALSE, <<ItemA, ItemB>>, None)

SecSingleDefault == Section(Some("card"), FALSE, <<ItemA, ItemB, ItemC>>, Some(2))

SecSingleNoMatch == Section(None, FALSE, <<ItemB, ItemA>>, Some(9))

SecSingleById == Section(None, FALSE, <<ItemA, ItemC>>, Some(3))

SecMulti == Section(Some("coupons"), TRUE, <<ItemA, ItemB>>, Some(1))

SecEmpty == Section(None, FALSE, <<>>, None)

\* a field mapping that names the value field only
ValueFieldMapping(name) ==
  [titleField |-> None, subtitleField |-> None, iconField |-> None,
   valueField |-> Some(name)]

LeafX == [ref |-> "X", f |-> [k \in {"value"} |-> 11], children |-> NoChildren]

LeafY == [ref |-> "Y", f |-> [k \in {"value"} |-> 12], children |-> NoChildren]

\* a group whose children are a function that returns a promise of list
LazyGroupOf(ref, list) ==
  [ref |-> ref, f |-> [k \in {"value"} |-> 30],
   children |-> [kind |-> "function", list |-> list]]

LazyG == LazyGroupOf("L", <<LeafX>>)

LazyH == LazyGroupOf("M", <<LeafY>>)

\* the trees with deferred children the host passes to setPaymentMethods
LazyTrees == {<<LazyG, LeafY>>, <<LazyG, LazyH>>}

\* the y coordinate of a pointer-down, and those of the moves that follow, in px
StartYs == {100}

MoveYs == {60, 120, 210, 300}

\* the ms between two pointer events
TimeSteps == {0, 10}

\* the longest drag, in ms
MaxDragTime == 20

\* the heights the layout gives the panel, in px
PanelHeights == {400, 1000}

\* the most provider calls that may be in flight at once
MaxLoads == 2

\* the calls of one group's children function are counted up to this number
MaxCalls == 2

GroupOf(ref, list) ==
  [ref |-> ref, f |-> [k \in {"value"} |-> 20], children |-> [kind |-> "array", list |-> list]]

\* the section lists the host passes to setSelectionSections
SectionLists ==
  {<<>>, <<SecEmpty>>, <<SecSingle>>, <<SecSingleDefault>>, <<SecMulti, SecSingleNoMatch>>,
   <<SecSingleById, SecEmpty>>}

\* the trees the host passes to setPaymentMethods
MethodLists ==
  {<<>>, <<LeafX, LeafY>>, <<GroupOf("G", <<>>)>>, <<GroupOf("G", <<LeafX>>), LeafY>>}

FieldMappings == {None, Some(ValueFieldMapping("id"))}

\* amounts: numbers, NaN, and strings that are and are not numeric
Str(chars) == StringArg(chars)

Amounts ==
  {UndefinedArg, NumberArg(500), NaNArg, Str(<<"a", "b", "c">>),
   Str(<<" ", "1", "2", ".", "5", " ">>)}

SymbolMapping == <<<<"!">>, <<"@">>, <<"#">>, <<"$">>, <<"%">>, <<"^">>, <<"&">>, <<"*">>,
                   <<"(">>, <<")">>>>

\* valid mappings and one of 9 entries
Mappings == {DefaultKeyboardMapping, SymbolMapping, SubSeq(SymbolMapping, 1, 9)}

RedTheme == [k \in {"primaryColor"} |-> "#ff4d4f"]

Themes == {EmptyTheme, RedTheme}

\* the number keys the user taps
Keys == {1}


NoConfig == [k \in {} |-> 0]

Opt(k, v) == [j \in {k} |-> v]

PasswordConfig ==
  Opt("enablePassword", TRUE) @@ Opt("passwordLength", 4)

GatedPasswordConfig ==
  PasswordConfig @@ Opt("allowConfirmWithoutSelections", FALSE)

GatedConfig ==
  Opt("allowConfirmWithoutSelections", FALSE) @@ Opt("autoCloseOnConfirm", TRUE)

GestureConfig ==
  Opt("allowSwipeToClose", FALSE) @@ Opt("closeThreshold", 5000)
    @@ Opt("closeThresholdPercent", 50) @@ Opt("velocityThreshold", 100)
    @@ Opt("closeOnOverlayClick", FALSE)

\* swipe thresholds other than the defaults
SwipeConfig ==
  Opt("closeThreshold", 5000) @@ Opt("closeThresholdPercent", 10)
    @@ Opt("velocityThreshold", 1500)

LookConfig ==
  Opt("headerTitle", "Checkout") @@ Opt("amountLabel", "Total")
    @@ Opt("emptyStateText", "Nothing to choose") @@ Opt("iconDisplay", "never")
    @@ Opt("hideSelections", TRUE) @@ Opt("amountAlign", "center")
    @@ Opt("amountFont", "Arial") @@ Opt("textFont", "Roboto")
    @@ Opt("language", "zh") @@ Opt("i18n", Opt("confirmButton", "OK"))
    @@ Opt("themeMode", "dark") @@ Opt("theme", RedTheme)

\* the config objects the host passes to setConfig
Configs ==
  {NoConfig, Opt("passwordLength", 8), Opt("passwordLength", 20),
   Opt("keyboardMapping", SymbolMapping),
   Opt("keyboardMapping", SubSeq(SymbolMapping, 1, 9)),
   PasswordConfig, GatedPasswordConfig, GatedConfig, GestureConfig, LookConfig}

-----------------------------------------------------------------------------
(* State assembly *)

\* the state a method starts from: `this`, the DOM, and nothing emitted or thrown yet
S == panel @@ dom @@ noOutput

Call(op, arg) == [op |-> op, arg |-> arg]

\* the amount the host set with this call, if the call set one
amountSet(call, s) ==
  IF call.op \in {"open", "setAmount"} /\ s.threw = "" /\ call.arg.type # "undefined"
     /\ (call.op = "open" => ~panel.isOpen)
  THEN Some(convertAmountToNumber(call.arg).v)
  ELSE hist.lastAmount

\* whether the host supplied sections or methods since the panel was last closed
suppliedAfter(call, s) ==
  IF panel.isOpen /\ ~s.isOpen THEN FALSE
  ELSE IF call.op \in {"setSelectionSections", "setPaymentMethods"} /\ call.arg.data # None
  THEN TRUE
  ELSE hist.suppliedSinceClose

\* whether no item was tapped since the host last set the sections
untouchedAfter(call) ==
  IF call.op = "setSelectionSections" THEN TRUE
  ELSE IF call.op = "selectionItemClick" THEN FALSE
  ELSE hist.untouched

\* per group index, since the tree was last set: how often its children function was
\* called (counted up to MaxCalls) and whether a load of that index failed
noLoads == [g \in {0, 1} |-> [calls |-> 0, failed |-> FALSE]]

loadsAfter(call, s) ==
  IF call.op = "setPaymentMethods" THEN noLoads
  ELSE IF call.op = "groupHeaderClick" /\ s.invoked # <<>>
  THEN [hist.loads EXCEPT ![call.arg.group] =
          [calls |-> Min(MaxCalls, @.calls + 1), failed |-> @.failed \/ call.arg.throws]]
  ELSE IF call.op = "providerSettled" /\ ~call.arg.ok
  THEN [hist.loads EXCEPT ![call.arg.group].failed = TRUE]
  ELSE hist.loads

\* where the pointer is, and the direction of its last movement during a drag
pointerAfter(call) ==
  IF call.op = "dragStart" THEN [y |-> call.arg.y, dir |-> "none"]
  ELSE IF call.op = "dragMove"
  THEN [y |-> call.arg.y,
        dir |-> IF call.arg.y > hist.pointer.y THEN "down"
                ELSE IF call.arg.y < hist.pointer.y THEN "up"
                ELSE hist.pointer.dir]
  ELSE hist.pointer

\* what the tree state held when this call, a setPaymentMethods, replaced the tree
replacedAfter(call) ==
  LET replaces == call.op = "setPaymentMethods"
  IN [expanded |-> replaces /\ panel.expandedGroups # {},
      cached |-> replaces /\ DOMAIN panel.loadedChildren # {},
      loading |-> replaces /\ panel.loadingGroups # {}]

\* the registrations made by on() for a pair that on() had already registered and
\* off() has not removed since
repeatedAfter(call) ==
  LET pair == call.arg
  IN IF call.op = "on"
     THEN (IF \E n \in 1..Len(dom.listeners) : dom.listeners[n] = pair
           THEN hist.repeated \cup {pair} ELSE hist.repeated)
     ELSE IF call.op = "off" THEN hist.repeated \ {pair}
     ELSE IF call.op = "removeAllListeners" THEN {}
     ELSE hist.repeated

\* who gave passwordLength its value: whether the point setter was the last to set it,
\* whether a setConfig call ever supplied it, and whether this call was a setConfig
\* without passwordLength on a length of 8 set by the point setter
lengthAfter(call) ==
  [bySetter |-> IF call.op = "setPasswordLength" THEN TRUE
                ELSE IF call.op = "setConfig" THEN FALSE
                ELSE hist.length.bySetter,
   configGave |-> \/ hist.length.configGave
                  \/ (call.op = "setConfig" /\ Has(call.arg, "passwordLength")),
   overwritten |-> /\ call.op = "setConfig" /\ ~Has(call.arg, "passwordLength")
                   /\ hist.length.bySetter /\ panel.passwordLength = 8]

\* whether no load was pending when the tree was last set
freshAfter(call) ==
  IF call.op = "setPaymentMethods" THEN dom.pendingLoads = <<>> ELSE hist.fresh

\* the call returns (or throws) leaving the state s
Commit(s, call) ==
  /\ panel' = [k \in DOMAIN panel |-> s[k]]
  /\ dom' = [k \in DOMAIN dom |-> s[k]]
  /\ out' = [emitted |-> s.emitted, threw |-> s.threw, invoked |-> s.invoked,
              delivered |-> s.delivered, call |-> call]
  /\ hist' = [lastAmount |-> amountSet(call, s),
              suppliedSinceClose |-> suppliedAfter(call, s),
              untouched |-> untouchedAfter(call),
              loads |-> loadsAfter(call, s),
              fresh |-> freshAfter(call),
              pointer |-> pointerAfter(call),
              length |-> lengthAfter(call),
              replaced |-> replacedAfter(call),
              repeated |-> repeatedAfter(call)]

Init ==
  LET s == connectedCallback(constructed @@ emptyDocument @@ noOutput)
  IN /\ panel = [k \in DOMAIN constructed |-> s[k]]
     /\ dom = [k \in DOMAIN emptyDocument |-> s[k]]
     /\ out = [emitted |-> <<>>, threw |-> "", invoked |-> <<>>, delivered |-> <<>>,
               call |-> Call("getInstance", None)]
     /\ hist = [lastAmount |-> None, suppliedSinceClose |-> FALSE, untouched |-> FALSE,
                loads |-> noLoads, fresh |-> TRUE,
                pointer |-> [y |-> 0, dir |-> "none"],
                length |-> [bySetter |-> FALSE, configGave |-> FALSE,
                            overwritten |-> FALSE],
                replaced |-> [expanded |-> FALSE, cached |-> FALSE, loading |-> FALSE],
                repeated |-> {}]

-----------------------------------------------------------------------------
(* Actions: the calls of the host *)

Open(amount) ==
  /\ dom.rafPending < MaxRaf
  /\ Commit(open(S, amount), Call("open", amount))

AnimationFrame ==
  /\ dom.rafPending > 0
  /\ Commit(animationFrame(S), Call("animationFrame", None))

Close == Commit(close(S), Call("close", None))

SetAmount(amount) == Commit(setAmount(S, amount), Call("setAmount", amount))

SetSelectionSections(sections, fieldMapping) ==
  Commit(setSelectionSections(S, sections, fieldMapping),
         Call("setSelectionSections", [data |-> sections, fieldMapping |-> fieldMapping]))

SetPaymentMethods(methods, fieldMapping) ==
  Commit(setPaymentMethods(S, methods, fieldMapping),
         Call("setPaymentMethods", [data |-> methods, fieldMapping |-> fieldMapping]))

SetConfig(config) == Commit(setConfig(S, config), Call("setConfig", config))

SetTheme(theme) == Commit(setTheme(S, theme), Call("setTheme", theme))

SetKeyboardMapping(mapping) ==
  Commit(setKeyboardMapping(S, mapping), Call("setKeyboardMapping", mapping))

SetEnablePassword(enable) ==
  Commit(setEnablePassword(S, enable), Call("setEnablePassword", enable))

SetPasswordLength(length) ==
  Commit(setPasswordLength(S, length), Call("setPasswordLength", length))

SetAllowConfirmWithoutSelections(allow) ==
  Commit(setAllowConfirmWithoutSelections(S, allow),
         Call("setAllowConfirmWithoutSelections", allow))

SetAutoCloseOnConfirm(autoClose) ==
  Commit(setAutoCloseOnConfirm(S, autoClose), Call("setAutoCloseOnConfirm", autoClose))

SetHideSelections(hide) ==
  Commit(setHideSelections(S, hide), Call("setHideSelections", hide))

SetCloseThreshold(threshold) ==
  Commit(setCloseThreshold(S, threshold), Call("setCloseThreshold", threshold))

\* the host registers and removes a handler of its own
On(event, handler) ==
  Commit(on(S, event, handler), Call("on", [event |-> event, handler |-> handler]))

Off(event, handler) ==
  Commit(off(S, event, handler), Call("off", [event |-> event, handler |-> handler]))

RemoveAllListeners(event) ==
  Commit(removeAllListeners(S, event), Call("removeAllListeners", event))

\* the host sets an attribute of the element
SetAttribute(name, value) ==
  Commit(setAttribute(S, name, value),
         Call("setAttribute", [name |-> name, value |-> value]))

SetCloseThresholdPercent(percent) ==
  Commit(setCloseThresholdPercent(S, percent), Call("setCloseThresholdPercent", percent))

SetVelocityThreshold(threshold) ==
  Commit(setVelocityThreshold(S, threshold), Call("setVelocityThreshold", threshold))

SetCloseOnOverlayClick(cl) ==
  Commit(setCloseOnOverlayClick(S, cl), Call("setCloseOnOverlayClick", cl))

SetLanguage(lang) == Commit(setLanguage(S, lang), Call("setLanguage", lang))

SetThemeMode(mode) == Commit(setThemeMode(S, mode), Call("setThemeMode", mode))

-----------------------------------------------------------------------------
(* Actions: the user's taps.  An element can be tapped when the panel carries the *)
(* show class and the element is displayed.                                       *)

ConfirmBtnClick ==
  /\ dom.panelShow /\ dom.actionsDisplay # "none"
  /\ Commit(confirmBtnClick(S), Call("confirmBtnClick", None))

CancelBtnClick ==
  /\ dom.panelShow /\ dom.actionsDisplay # "none"
  /\ Commit(closeClick(S), Call("cancelBtnClick", None))

CloseBtnClick ==
  /\ dom.panelShow
  /\ Commit(closeClick(S), Call("closeBtnClick", None))

OverlayClick ==
  /\ dom.overlayShow /\ dom.overlayClick
  /\ Commit(closeClick(S), Call("overlayClick", None))

KeyClick(digit) ==
  /\ dom.panelShow /\ dom.passwordSectionDisplay # "none"
  /\ Commit(keyClick(S, digit), Call("keyClick", digit))

DeleteKeyClick ==
  /\ dom.panelShow /\ dom.passwordSectionDisplay # "none"
  /\ Commit(deleteKeyClick(S), Call("deleteKeyClick", None))

\* a tap on the k-th .selection-item of the rendered list
SelectionItemClick(k) ==
  /\ dom.panelShow /\ dom.selectionsDisplay # "none"
  /\ dom.list.kind = "sections" /\ k \in 1..Len(dom.list.items)
  /\ Commit(selectionItemClick(S, dom.list.items[k].sec, dom.list.items[k].idx),
            Call("selectionItemClick", dom.list.items[k]))

\* a tap on the k-th .payment-method of the rendered list; the children of a group are
\* displayed while the group is expanded
PaymentMethodClick(k) ==
  /\ dom.panelShow /\ dom.selectionsDisplay # "none"
  /\ dom.list.kind = "methods" /\ k \in 1..Len(dom.list.items)
  /\ \/ dom.list.items[k].sec = -1
     \/ \E h \in 1..Len(dom.list.headers) :
          dom.list.headers[h].group = dom.list.items[k].sec /\ dom.list.headers[h].expanded
  /\ Commit(paymentMethodClick(S, dom.list.items[k].idx),
            Call("paymentMethodClick", dom.list.items[k]))

\* a pointer goes down on a surface of the panel; the panel, the handle and the header
\* carry the listeners of setupDragListeners
DragStart(target, y) ==
  /\ dom.panelShow /\ dom.panelDragListeners
  /\ Commit(handleDragStart(S, target, y),
            Call("dragStart", [target |-> target, y |-> y]))

\* the pointer moves; the document carries the listeners of setupDragListeners
DragMove(y, dt, panelHeight) ==
  /\ dom.docDragListeners
  /\ panel.isDragging
  /\ dom.now + dt <= MaxDragTime
  /\ Commit(handleDragMove(S, y, dt, panelHeight),
            Call("dragMove", [y |-> y, dt |-> dt, panelHeight |-> panelHeight]))

\* the pointer is released
DragEnd(panelHeight) ==
  /\ dom.docDragListeners
  /\ Commit(handleDragEnd(S, panelHeight),
            Call("dragEnd", [panelHeight |-> panelHeight,
                             dragging |-> panel.isDragging,
                             deltaY |-> panel.currentY - panel.startY,
                             velocity |-> panel.velocity]))

\* a tap on the h-th group header of the rendered list
GroupHeaderClick(h, throws) ==
  /\ dom.panelShow /\ dom.selectionsDisplay # "none"
  /\ dom.list.kind = "methods" /\ h \in 1..Len(dom.list.headers)
  /\ Len(groupHeaderClick(S, dom.list.headers[h].group, throws).pendingLoads) <= MaxLoads
  /\ Commit(groupHeaderClick(S, dom.list.headers[h].group, throws),
            Call("groupHeaderClick", [group |-> dom.list.headers[h].group,
                                      throws |-> throws]))

\* the promise of the i-th pending load settles and the load's continuation runs
ProviderSettled(i, ok) ==
  /\ i \in 1..Len(dom.pendingLoads)
  /\ Commit(providerSettled(S, i, ok),
            Call("providerSettled", [group |-> dom.pendingLoads[i].group,
                                     ref |-> dom.pendingLoads[i].ref, ok |-> ok]))

-----------------------------------------------------------------------------
(* Specifications *)

\* the configuration engine: the bulk setter against the point setters
NextConfig ==
  \/ \E config \in Configs : SetConfig(config)
  \/ \E mapping \in Mappings : SetKeyboardMapping(mapping)
  \/ \E length \in {2, 8, 20} : SetPasswordLength(length)
  \/ \E value \in {<<"3">>, <<"2", "0">>} : SetAttribute("password-length", value)
  \/ \E enable \in BOOLEAN : SetEnablePassword(enable)
  \/ \E threshold \in {5000, 20000} : SetCloseThreshold(threshold)

SpecConfig == Init /\ [][NextConfig]_vars

\* the Selection Store: both models, the taps on their items, and the sessions
NextStore ==
  \/ \E sections \in {None} \cup {Some(l) : l \in SectionLists}, fm \in FieldMappings :
       SetSelectionSections(sections, fm)
  \/ \E methods \in {None} \cup {Some(l) : l \in MethodLists} :
       SetPaymentMethods(methods, None)
  \/ Open(UndefinedArg)
  \/ AnimationFrame
  \/ Close
  \/ \E k \in 1..5 : SelectionItemClick(k)
  \/ \E k \in 1..2 : PaymentMethodClick(k)
  \/ ConfirmBtnClick

SpecStore == Init /\ [][NextStore]_vars

\* a payment session without password: amounts, re-rendering calls, and confirmation
NextSession ==
  \/ \E amount \in Amounts : Open(amount)
  \/ AnimationFrame
  \/ Close
  \/ \E amount \in {NumberArg(1250), Str(<<"a", "b", "c">>)} : SetAmount(amount)
  \/ SetTheme(RedTheme)
  \/ SetConfig(GatedConfig)
  \/ SetKeyboardMapping(SymbolMapping)
  \/ SetSelectionSections(Some(<<SecSingle>>), None)
  \/ ConfirmBtnClick
  \/ CancelBtnClick
  \/ CloseBtnClick
  \/ OverlayClick
  \/ \E k \in 1..2 : SelectionItemClick(k)

SpecSession == Init /\ [][NextSession]_vars

\* password entry: the soft keyboard, the gate, and what changes them
NextPassword ==
  \/ Open(NumberArg(500))
  \/ AnimationFrame
  \/ Close
  \/ \E config \in {PasswordConfig, GatedPasswordConfig, GatedConfig} : SetConfig(config)
  \/ SetKeyboardMapping(SymbolMapping)
  \/ \E sections \in {Some(<<SecSingle>>), Some(<<SecEmpty>>)} :
       SetSelectionSections(sections, None)
  \/ \E digit \in Keys : KeyClick(digit)
  \/ DeleteKeyClick
  \/ ConfirmBtnClick
  \/ \E k \in 1..2 : SelectionItemClick(k)

SpecPassword == Init /\ [][NextPassword]_vars

\* the legacy tree with deferred children: header taps and the loads they start
NextLazy ==
  \/ \E methods \in LazyTrees : SetPaymentMethods(Some(methods), None)
  \/ Open(UndefinedArg)
  \/ AnimationFrame
  \/ Close
  \/ \E h \in 1..2, throws \in BOOLEAN : GroupHeaderClick(h, throws)
  \/ \E i \in 1..MaxLoads, ok \in BOOLEAN : ProviderSettled(i, ok)
  \/ \E k \in 1..2 : PaymentMethodClick(k)

SpecLazy == Init /\ [][NextLazy]_vars

\* the dismissal gesture: pointer-down, moves and release on an open panel
NextDrag ==
  \/ Open(UndefinedArg)
  \/ AnimationFrame
  \/ Close
  \/ \E config \in {SwipeConfig, GestureConfig} : SetConfig(config)
  \/ \E target \in DragSurfaces \cup PassThroughSurfaces, y \in StartYs :
       DragStart(target, y)
  \/ \E y \in MoveYs, dt \in TimeSteps, panelHeight \in PanelHeights :
       DragMove(y, dt, panelHeight)
  \/ \E panelHeight \in PanelHeights : DragEnd(panelHeight)

SpecDrag == Init /\ [][NextDrag]_vars

\* every way to close the panel: close(), the buttons, the overlay, the auto-close
\* after confirm, and the release of a drag
NextClose ==
  \/ Open(UndefinedArg)
  \/ AnimationFrame
  \/ Close
  \/ \E autoClose \in BOOLEAN : SetAutoCloseOnConfirm(autoClose)
  \/ ConfirmBtnClick
  \/ CancelBtnClick
  \/ CloseBtnClick
  \/ OverlayClick
  \/ \E target \in {"handle", "content"}, y \in StartYs : DragStart(target, y)
  \/ \E y \in {120, 300}, dt \in TimeSteps : DragMove(y, dt, 400)
  \/ DragEnd(400)

SpecClose == Init /\ [][NextClose]_vars

\* amounts for the amount text: numbers, text that is a decimal, text with a numeric
\* prefix only, and text without a digit
AmountInputs ==
  {NumberArg(500), NumberArg(-250), NaNArg,
   Str(<<"a", "b", "c">>), Str(<<" ", "1", "2", ".", "5", " ">>),
   Str(<<"1", "2", "a">>), Str(<<"7", ".">>), Str(<<" ">>), Str(<<>>)}

\* the amount text: setAmount and open over every amount
NextAmount ==
  \/ \E amount \in AmountInputs : SetAmount(amount)
  \/ \E amount \in AmountInputs \cup {UndefinedArg} : Open(amount)
  \/ AnimationFrame
  \/ Close

SpecAmount == Init /\ [][NextAmount]_vars

\* the trees for the replacement of the legacy tree: leaves after a group without a
\* leaf, leaves two levels down, deferred children, and no leaf at all
ReplacementTrees ==
  {<<>>,
   <<GroupOf("G", <<>>), LeafY, LeafX>>,
   <<GroupOf("G", <<GroupOf("H", <<>>), GroupOf("K", <<LeafX>>)>>), LeafY>>,
   <<LazyG, LeafY>>,
   <<LazyG, GroupOf("G", <<>>)>>,
   <<LazyH, LeafX>>}

\* the legacy tree: replaced while groups are expanded, loading and cached
NextTree ==
  \/ \E methods \in {None} \cup {Some(l) : l \in ReplacementTrees} :
       SetPaymentMethods(methods, None)
  \/ Open(UndefinedArg)
  \/ AnimationFrame
  \/ \E h \in 1..2, throws \in BOOLEAN : GroupHeaderClick(h, throws)
  \/ \E i \in 1..MaxLoads, ok \in BOOLEAN : ProviderSettled(i, ok)

SpecTree == Init /\ [][NextTree]_vars

\* the handlers of the host
Handlers == {"h1", "h2"}

\* the event channel: handlers registered and removed around confirm and close events
NextEvents ==
  \/ \E event \in {"confirm", "close"}, handler \in Handlers : On(event, handler)
  \/ \E event \in {"confirm", "close"}, handler \in Handlers : Off(event, handler)
  \/ Open(UndefinedArg)
  \/ AnimationFrame
  \/ Close
  \/ SetAutoCloseOnConfirm(TRUE)
  \/ ConfirmBtnClick

SpecEvents == Init /\ [][NextEvents]_vars

\* the point setters, each with a value other than the option's default
NextSetters ==
  \/ SetCloseThreshold(5000)
  \/ SetCloseThresholdPercent(50)
  \/ SetVelocityThreshold(80)
  \/ SetCloseOnOverlayClick(FALSE)
  \/ SetEnablePassword(TRUE)
  \/ SetPasswordLength(8)
  \/ SetAutoCloseOnConfirm(TRUE)
  \/ SetAllowConfirmWithoutSelections(FALSE)
  \/ SetHideSelections(TRUE)
  \/ SetLanguage("zh")
  \/ SetThemeMode("dark")
  \/ SetTheme(RedTheme)
  \/ \E mapping \in {SymbolMapping, SubSeq(SymbolMapping, 1, 9)} :
       SetKeyboardMapping(mapping)

SpecSetters == Init /\ [][NextSetters]_vars

\* the removal of all handlers, on a panel with handlers, a session, an amount,
\* options and a store of its own
NextListeners ==
  \/ \E event \in {"confirm", "close"} : On(event, "h1")
  \/ \E event \in {None, Some("confirm"), Some("close")} : RemoveAllListeners(event)
  \/ Open(NumberArg(500))
  \/ AnimationFrame
  \/ Close
  \/ SetAutoCloseOnConfirm(TRUE)
  \/ SetCloseThreshold(5000)
  \/ SetSelectionSections(Some(<<SecSingle>>), None)
  \/ ConfirmBtnClick

SpecListeners == Init /\ [][NextListeners]_vars

\* the password buffer against the routes that change the password length
NextLength ==
  \/ Open(UndefinedArg)
  \/ AnimationFrame
  \/ Close
  \/ \E config \in {PasswordConfig, Opt("enablePassword", TRUE)} : SetConfig(config)
  \/ \E length \in {4, 8} : SetPasswordLength(length)
  \/ \E value \in {<<"4">>, <<"8">>} : SetAttribute("password-length", value)
  \/ \E digit \in Keys : KeyClick(digit)
  \/ DeleteKeyClick

SpecLength == Init /\ [][NextLength]_vars

\* the three threshold setters over zero, values in range and a percentage above 1
NextThresholds ==
  \/ \E threshold \in {0, 5000} : SetCloseThreshold(threshold)
  \/ \E percent \in {0, 50, 150} : SetCloseThresholdPercent(percent)
  \/ \E threshold \in {0, 80} : SetVelocityThreshold(threshold)
  \/ Open(UndefinedArg)
  \/ AnimationFrame
  \/ Close

SpecThresholds == Init /\ [][NextThresholds]_vars

\* the whole component: every call and every tap
Next ==
  NextConfig \/ NextStore \/ NextSession \/ NextPassword \/ NextLazy \/ NextDrag
    \/ NextClose \/ NextSetters \/ NextAmount \/ NextTree \/ NextEvents
    \/ NextListeners \/ NextLength \/ NextThresholds

Spec == Init /\ [][Next]_vars

-----------------------------------------------------------------------------
(* Properties *)

\* the confirm events the last call dispatched
confirmEvents == {i \in 1..Len(out.emitted) : out.emitted[i].type = "confirm"}

\* C1: after a call setConfig(c) that returns, every configurable option equals the
\* value c supplies (a passwordLength brought into its range 4..12), or its documented
\* default when c does not supply it: the options of DEFAULT_CONFIG (keyboardMapping
\* among them), the three texts, i18n and the theme.
C1_SetConfigSetsEveryOption ==
  (out.call.op = "setConfig" /\ out.threw = "") =>
    LET c == out.call.arg
    IN /\ \A k \in DOMAIN DEFAULT_CONFIG \ {"passwordLength"} : panel[k] = Given(c, k)
       /\ panel.passwordLength = Max(4, Min(12, Given(c, "passwordLength")))
       /\ panel.headerTitle = GivenOpt(c, "headerTitle")
       /\ panel.amountLabel = GivenOpt(c, "amountLabel")
       /\ panel.emptyStateText = GivenOpt(c, "emptyStateText")
       /\ panel.customI18n = GivenOpt(c, "i18n")
       /\ panel.theme = (IF Has(c, "theme") THEN c["theme"] ELSE EmptyTheme)

\* the parts of the Selection Store and the flags that open() may reset
storeOf(p) ==
  <<p.selectionSections, p.paymentMethods, p.fieldMapping, p.selectedItems,
    p.selectedMethod, p.hasCustomSelections, p.hasCustomPaymentMethods>>

\* C2: open(amount) on a closed panel with a text that is not numeric throws
\* InvalidAmount and mutates nothing: the panel is still closed, the scroll lock of the
\* page is not taken, and the Selection Store and the custom-data flags are unchanged.
C2_FailedOpenMutatesNothing ==
  [][(out'.call.op = "open" /\ ~panel.isOpen /\ out'.call.arg.type = "string"
        /\ convertAmountToNumber(out'.call.arg).err)
       => /\ out'.threw = "InvalidAmount"
          /\ ~panel'.isOpen
          /\ dom'.bodyOverflow = dom.bodyOverflow
          /\ storeOf(panel') = storeOf(panel)]_vars

\* C3: every confirm event carries the amount the host most recently set with
\* open(amount) or setAmount(amount), with two decimals, whatever was called in between.
C3_ConfirmCarriesSetAmount ==
  \A i \in confirmEvents :
    hist.lastAmount # None => out.emitted[i].detail.amount = ToFixed2(hist.lastAmount[1])

\* hasSelectable() as the specification defines it: some section has an item, or the
\* legacy tree has a leaf (a node without children, at any depth of the direct arrays)
RECURSIVE hasLeaf(_)
hasLeaf(methods) ==
  \E n \in 1..Len(methods) :
    IF HasChildren(methods[n]) THEN hasLeaf(methods[n].children.list) ELSE TRUE

hasSelectable(p) ==
  \/ \E n \in 1..Len(p.selectionSections) : Len(p.selectionSections[n].items) > 0
  \/ hasLeaf(p.paymentMethods)

\* C4: no call emits a confirm event, by the confirm button or by a completed
\* password, when before it hasSelectable() is false and allowConfirmWithoutSelections
\* is false.
C4_NoConfirmWhileNotSelectable ==
  [][(~hasSelectable(panel) /\ ~panel.allowConfirmWithoutSelections)
       => \A i \in 1..Len(out'.emitted) : out'.emitted[i].type # "confirm"]_vars

\* C5: the predicate that gates confirmPayment and updatePasswordUI is true exactly
\* when some section has an item or the legacy tree has a leaf.
C5_GateIffSelectable == hasSelections(panel) <=> hasSelectable(panel)

\* C6: with password entry enabled, a tap on a key that is accepted (the buffer is
\* shorter than passwordLength) appends the key's mapped character; when that makes
\* the buffer passwordLength long, exactly one confirm event is emitted, it carries the
\* completed buffer, and the buffer is empty afterwards; otherwise no confirm event is
\* emitted and the buffer is the longer one.
C6_CompletionConfirmsOnce ==
  [][(out'.call.op = "keyClick" /\ panel.enablePassword
        /\ Len(panel.currentPassword) < panel.passwordLength)
       => LET buffer == panel.currentPassword \o panel.keyboardMapping[out'.call.arg + 1]
              confirms == {i \in 1..Len(out'.emitted) : out'.emitted[i].type = "confirm"}
          IN IF Len(buffer) = panel.passwordLength
             THEN /\ Cardinality(confirms) = 1
                  /\ \A i \in confirms : out'.emitted[i].detail.password = Some(buffer)
                  /\ panel'.currentPassword = <<>>
             ELSE /\ confirms = {}
                  /\ panel'.currentPassword = buffer]_vars

\* the section model holds data or selections
sectionModelHolds(p) ==
  p.selectionSections # <<>> \/ \E i \in DOMAIN p.selectedItems : p.selectedItems[i] # <<>>

\* the legacy tree holds data, a selection, or expansion, loading or cache state
legacyModelHolds(p) ==
  \/ p.paymentMethods # <<>> \/ p.selectedMethod # None
  \/ p.expandedGroups # {} \/ p.loadingGroups # {} \/ DOMAIN p.loadedChildren # {}

\* C7: after setSelectionSections the legacy tree and all its state are empty, after
\* setPaymentMethods the sections and the per-section selections are empty, and in
\* every state at most one of the two models holds data or selections.
C7_ModelsExclusive ==
  /\ out.call.op = "setSelectionSections" => ~legacyModelHolds(panel)
  /\ out.call.op = "setPaymentMethods" => ~sectionModelHolds(panel)
  /\ ~(sectionModelHolds(panel) /\ legacyModelHolds(panel))

\* the Selection Store holds its empty defaults
storeEmpty(p) ==
  /\ p.selectionSections = <<>> /\ p.paymentMethods = <<>>
  /\ \A i \in DOMAIN p.selectedItems : p.selectedItems[i] = <<>>
  /\ p.selectedMethod = None

\* C8: whenever the panel goes from closed to open and the host has not called
\* setSelectionSections or setPaymentMethods with data since the previous close, the
\* Selection Store holds its empty defaults after the step.
C8_ResetUnlessSuppliedSinceClose ==
  [][(~panel.isOpen /\ panel'.isOpen /\ ~hist.suppliedSinceClose)
       => storeEmpty(panel')]_vars

\* every single-select section of p has at most one selected item
singleSelectAtMostOne(p) ==
  \A n \in 1..Len(p.selectionSections) :
    ~p.selectionSections[n].multiple => Len(MapGet(p.selectedItems, n - 1)) <= 1

\* C9: every single-select section has at most one selected item in every state, and a
\* tap on an item of a single-select section leaves exactly that item selected, or
\* nothing when the item was the selected one (tap A, tap B: only B; tap B again: none).
C9_SingleSelect ==
  [][/\ singleSelectAtMostOne(panel')
     /\ (out'.call.op = "selectionItemClick"
           /\ out'.call.arg.sec + 1 <= Len(panel.selectionSections))
          => LET sec == out'.call.arg.sec
                 section == panel.selectionSections[sec + 1]
                 item == section.items[out'.call.arg.idx + 1]
             IN (~section.multiple /\ out'.call.arg.idx + 1 <= Len(section.items))
                  => MapGet(panel'.selectedItems, sec) =
                       (IF Includes(MapGet(panel.selectedItems, sec), item)
                        THEN <<>> ELSE <<item>>)]_vars

\* C9 witness: a tap on the selected item of a single-select section left it without
\* selection
C9_Witness ==
  /\ out.call.op = "selectionItemClick"
  /\ out.call.arg.sec + 1 <= Len(panel.selectionSections)
  /\ ~panel.selectionSections[out.call.arg.sec + 1].multiple
  /\ Len(panel.selectionSections[out.call.arg.sec + 1].items) > 1
  /\ MapGet(panel.selectedItems, out.call.arg.sec) = <<>>

\* the value an item is matched on: its value field, else value, else id
matchValue(item, p) ==
  IF valueFieldOf(p) \in DOMAIN item.f THEN Some(item.f[valueFieldOf(p)])
  ELSE IF "value" \in DOMAIN item.f THEN Some(item.f["value"])
  ELSE IF "id" \in DOMAIN item.f THEN Some(item.f["id"])
  ELSE None

\* the positions of the items of section that match its defaultValue
defaultMatches(section, p) ==
  {k \in 1..Len(section.items) :
     section.defaultValue # None /\ matchValue(section.items[k], p) = section.defaultValue}

\* C10: after setSelectionSections(sections), every single-select section with items
\* has exactly one selected item, the first item that matches defaultValue if there is
\* one and the first item otherwise; every other section has no selection.
C10_DefaultSelection ==
  (out.call.op = "setSelectionSections") =>
    \A n \in 1..Len(panel.selectionSections) :
      LET section == panel.selectionSections[n]
          matches == defaultMatches(section, panel)
          selected == MapGet(panel.selectedItems, n - 1)
      IN IF ~section.multiple /\ Len(section.items) > 0
         THEN /\ Len(selected) = 1
              /\ selected[1].ref =
                   (IF matches = {} THEN section.items[1].ref
                    ELSE section.items[CHOOSE k \in matches : \A j \in matches : k <= j].ref)
         ELSE selected = <<>>

\* C10 witness: setSelectionSections pre-selected an item that is not the first of
\* its section
C10_Witness ==
  /\ out.call.op = "setSelectionSections"
  /\ \E n \in 1..Len(panel.selectionSections) :
       /\ ~panel.selectionSections[n].multiple
       /\ Len(MapGet(panel.selectedItems, n - 1)) = 1
       /\ MapGet(panel.selectedItems, n - 1)[1].ref # panel.selectionSections[n].items[1].ref

\* the positions of the sections that have a selection
selectedSections(p) ==
  {n \in 1..Len(p.selectionSections) : MapGet(p.selectedItems, n - 1) # <<>>}

\* the resolved value of an item: the value it is matched on, else the item itself
resolvedValue(item, p) ==
  IF matchValue(item, p) # None THEN Val(matchValue(item, p)[1]) ELSE ObjVal(item)

\* C11: the structured result of every confirm event has an entry for exactly the
\* sections with a non-empty selection, under the section's key or else its index; the
\* entry of a single-select section is the resolved value of its selected item, that of
\* a multi-select section the list of the resolved values of its selected items; and a
\* single-select section with 2 items and no defaultValue, confirmed before any item
\* was tapped, is reported with the value of its first item.
C11_StructuredResult ==
  \A i \in confirmEvents :
    LET sel == out.emitted[i].detail.selections
        keyOf(n) == IF panel.selectionSections[n].key # None
                    THEN panel.selectionSections[n].key[1] ELSE DigitChars[n]
    IN /\ DOMAIN sel = {keyOf(n) : n \in selectedSections(panel)}
       /\ \A n \in selectedSections(panel) :
            LET section == panel.selectionSections[n]
                chosen == panel.selectedItems[n - 1]
            IN /\ sel[keyOf(n)].multiple = section.multiple
               /\ sel[keyOf(n)].values =
                    (IF section.multiple
                     THEN [k \in 1..Len(chosen) |-> resolvedValue(chosen[k], panel)]
                     ELSE <<resolvedValue(chosen[1], panel)>>)
       /\ \A n \in 1..Len(panel.selectionSections) :
            LET section == panel.selectionSections[n]
            IN (hist.untouched /\ ~section.multiple /\ Len(section.items) = 2
                  /\ section.defaultValue = None)
                 => /\ keyOf(n) \in DOMAIN sel
                    /\ sel[keyOf(n)].values = <<resolvedValue(section.items[1], panel)>>

\* C11 witness: a confirm event reports a multi-select section with two selected items
\* beside a single-select section
C11_Witness ==
  \E i \in confirmEvents :
    LET sel == out.emitted[i].detail.selections
    IN /\ \E k \in DOMAIN sel : sel[k].multiple /\ Len(sel[k].values) = 2
       /\ \E k \in DOMAIN sel : ~sel[k].multiple

\* the first selected item across the sections, in section order
firstSelectedItem(p) ==
  IF selectedSections(p) = {} THEN None
  ELSE LET n == CHOOSE m \in selectedSections(p) : \A j \in selectedSections(p) : m <= j
       IN Some(p.selectedItems[n - 1][1])

\* the item the single-selection fields are to identify: of the model in use
currentFirstSelection(p) ==
  IF p.selectionSections # <<>> THEN firstSelectedItem(p)
  ELSE IF p.paymentMethods # <<>> THEN p.selectedMethod
  ELSE None

\* C12: the single-selection fields of every confirm event (selection, selectionData,
\* method, methodData) identify the first selected item across the sections when the
\* sections are in use, the selected method when the legacy tree is in use, and never
\* an item of a model that was replaced.
C12_FirstSelectedProjection ==
  \A i \in confirmEvents :
    LET detail == out.emitted[i].detail
        expected == currentFirstSelection(panel)
    IN /\ detail.selectionData = expected
       /\ detail.methodData = expected
       /\ expected # None =>
            /\ detail.selection = Some(resolvedValue(expected[1], panel))
            /\ detail.method = Some(resolvedValue(expected[1], panel))

\* the step is a header click on a group that is not loading
headerClickOn(g) ==
  /\ out'.call.op = "groupHeaderClick" /\ out'.call.arg.group = g
  /\ g \notin panel.loadingGroups

\* C13: for a group with a deferred provider whose first load succeeded, the provider
\* was called exactly once however often the group was collapsed and expanded since:
\* a header click on the expanded group collapses it and keeps the cached children, a
\* header click on the collapsed group with cached children expands it without calling
\* the provider, and a successful load caches the children and expands the group.
C13_ProviderCalledOnce ==
  [][\A g \in {0, 1} :
       /\ (headerClickOn(g) /\ g \in panel.expandedGroups)
            => /\ g \notin panel'.expandedGroups
               /\ panel'.loadedChildren = panel.loadedChildren
               /\ out'.invoked = <<>>
       /\ (headerClickOn(g) /\ g \notin panel.expandedGroups
             /\ g \in DOMAIN panel.loadedChildren)
            => /\ g \in panel'.expandedGroups
               /\ panel'.loadedChildren = panel.loadedChildren
               /\ out'.invoked = <<>>
       /\ (out'.call.op = "providerSettled" /\ out'.call.arg.group = g /\ out'.call.arg.ok)
            => g \in DOMAIN panel'.loadedChildren /\ g \in panel'.expandedGroups
       /\ (hist'.fresh /\ ~hist'.loads[g].failed /\ g \in DOMAIN panel'.loadedChildren)
            => hist'.loads[g].calls = 1]_vars

\* C13 witness: a group whose only load succeeded was collapsed and is expanded again
\* from the cache, without a second call
C13_Witness ==
  /\ out.call.op = "groupHeaderClick" /\ out.invoked = <<>>
  /\ out.call.arg.group \in panel.expandedGroups
  /\ out.call.arg.group \in DOMAIN panel.loadedChildren
  /\ hist.fresh /\ ~hist.loads[out.call.arg.group].failed
  /\ hist.loads[out.call.arg.group].calls = 1

\* the provider of group g failed in this step: its children function threw when the
\* header click called it, or the promise it returned was rejected (the group being
\* still the one at that position of the tree)
providerFailed(g) ==
  \/ /\ out'.call.op = "groupHeaderClick" /\ out'.call.arg.group = g
     /\ out'.call.arg.throws /\ out'.invoked # <<>>
  \/ /\ out'.call.op = "providerSettled" /\ out'.call.arg.group = g /\ ~out'.call.arg.ok
     /\ g + 1 <= Len(panel.paymentMethods)
     /\ panel.paymentMethods[g + 1].ref = out'.call.arg.ref

\* C14: when the provider of a group fails, nothing is thrown to the host, the group is
\* afterwards not loading, not expanded and has no cached children, and a header click
\* on it would call the provider again.
C14_FailedLoadLeavesCollapsed ==
  [][\A g \in {0, 1} :
       providerFailed(g)
         => /\ out'.threw = ""
            /\ g \notin panel'.loadingGroups
            /\ g \notin panel'.expandedGroups
            /\ g \notin DOMAIN panel'.loadedChildren
            /\ g + 1 <= Len(panel'.paymentMethods)
            /\ needsLoading(panel', g, panel'.paymentMethods[g + 1])]_vars

\* C15: no two provider calls for the same group are in flight at once.
C15_OneLoadPerGroup ==
  \A i, j \in 1..Len(dom.pendingLoads) :
    (i # j) =>
      ~(/\ dom.pendingLoads[i].group = dom.pendingLoads[j].group
        /\ dom.pendingLoads[i].ref = dom.pendingLoads[j].ref)

\* the step releases a drag that is in progress
releasesDrag == out'.call.op = "dragEnd" /\ panel.isDragging

\* max(closeThreshold, panelHeight * closeThresholdPercent), in hundredths of a pixel
effectiveThreshold(p, panelHeight) ==
  IF p.closeThreshold > panelHeight * p.closeThresholdPercent
  THEN p.closeThreshold ELSE panelHeight * p.closeThresholdPercent

\* the close events the step dispatched
closeEventsOfStep == {i \in 1..Len(out'.emitted) : out'.emitted[i].type = "close"}

\* C16: a drag released with a downward total displacement that does not exceed the
\* distance threshold closes the panel when its velocity exceeded velocityThreshold and
\* the pointer's last movement was downward.
C16_FastDownwardReleaseCloses ==
  [][releasesDrag =>
       LET deltaY == panel.currentY - panel.startY
       IN (/\ deltaY > 0
           /\ deltaY * 100 <= effectiveThreshold(panel, out'.call.arg.panelHeight)
           /\ panel.velocity.dist * 100 > panel.velocityThreshold * panel.velocity.time
           /\ hist.pointer.dir = "down")
            => ~panel'.isOpen /\ closeEventsOfStep # {}]_vars

\* C17: a drag released with a total displacement greater than
\* max(closeThreshold, panelHeight * closeThresholdPercent) closes the panel, also at
\* zero velocity; a drag released with a displacement at or below that threshold and
\* zero velocity bounces back and leaves the panel open.
C17_DistanceThreshold ==
  [][releasesDrag =>
       LET deltaY == panel.currentY - panel.startY
           threshold == effectiveThreshold(panel, out'.call.arg.panelHeight)
       IN /\ deltaY * 100 > threshold
               => ~panel'.isOpen /\ Cardinality(closeEventsOfStep) = 1
          /\ (deltaY * 100 <= threshold /\ panel.velocity.dist = 0)
               => /\ panel'.isOpen /\ out'.emitted = <<>>
                  /\ dom'.panelTransform = None /\ dom'.overlayOpacity = None]_vars

\* C17 witness: a drag at zero velocity was released beyond the threshold and closed
\* the panel
C17_Witness ==
  /\ out.call.op = "dragEnd" /\ out.call.arg.dragging
  /\ out.call.arg.velocity.dist = 0
  /\ out.call.arg.deltaY * 100 > effectiveThreshold(panel, out.call.arg.panelHeight)
  /\ ~panel.isOpen
  /\ \E i \in 1..Len(out.emitted) : out.emitted[i].type = "close"

\* the step takes the panel from open to closed
closesPanel == panel.isOpen /\ ~panel'.isOpen

\* C18: open() on an open panel and close() on a closed panel change nothing and emit
\* nothing; every step that takes the panel from open to closed (a drag release, a
\* click on the overlay, the close button or the cancel button, close(), the auto-close
\* after confirm) emits exactly one close event and leaves the page's scroll lock
\* released; no other step emits a close event.
C18_CloseOncePerTransition ==
  [][/\ (out'.call.op = "open" /\ panel.isOpen)
          => panel' = panel /\ dom' = dom /\ out'.emitted = <<>> /\ out'.threw = ""
     /\ (out'.call.op = "close" /\ ~panel.isOpen)
          => panel' = panel /\ dom' = dom /\ out'.emitted = <<>> /\ out'.threw = ""
     /\ closesPanel => Cardinality(closeEventsOfStep) = 1 /\ dom'.bodyOverflow = ""
     /\ ~closesPanel => closeEventsOfStep = {}]_vars

\* C18 witness: the confirm button closed the panel through autoCloseOnConfirm: a confirm
\* event, then one close event, and the scroll lock is released
C18_Witness ==
  /\ out.call.op = "confirmBtnClick"
  /\ ~panel.isOpen /\ dom.bodyOverflow = ""
  /\ Len(out.emitted) = 2
  /\ out.emitted[1].type = "confirm" /\ out.emitted[2].type = "close"

\* the step is a setConfig call that does not supply passwordLength, on a length of 8
\* that setPasswordLength(8) set
setConfigAfterPointSet ==
  /\ out'.call.op = "setConfig" /\ ~Has(out'.call.arg, "passwordLength")
  /\ hist.length.bySetter /\ panel.passwordLength = 8

\* C19: when passwordLength was set to 8 by setPasswordLength(8) and no setConfig call
\* ever supplied passwordLength, a setConfig call that supplies only other options
\* leaves passwordLength at 8.
C19_PointSetLengthKept ==
  [][(setConfigAfterPointSet /\ ~hist.length.configGave)
       => panel'.passwordLength = 8]_vars

\* C19 as the code has it: a setConfig call that does not supply passwordLength resets a
\* passwordLength of 8 set by setPasswordLength(8) to the default, 6, whether or not a
\* setConfig call supplied passwordLength before.
C19_SetConfigResetsPointSetLength ==
  [][setConfigAfterPointSet
       => panel'.passwordLength = DEFAULT_CONFIG.passwordLength]_vars

\* C19 witness: setConfig without passwordLength has just reset a length of 8 that the
\* point setter had set, no setConfig call having supplied passwordLength
C19_Witness ==
  /\ hist.length.overwritten /\ ~hist.length.configGave
  /\ out.call.op = "setConfig"
  /\ panel.passwordLength = 6

\* the configuration options: those with a documented default, the texts and the theme
ConfigOptions ==
  DOMAIN DEFAULT_CONFIG \cup {"headerTitle", "amountLabel", "emptyStateText",
                              "customI18n", "theme"}

\* the per-option setters and the option each of them sets
OptionOfSetter ==
  [setCloseThreshold |-> "closeThreshold",
   setCloseThresholdPercent |-> "closeThresholdPercent",
   setVelocityThreshold |-> "velocityThreshold",
   setCloseOnOverlayClick |-> "closeOnOverlayClick",
   setEnablePassword |-> "enablePassword",
   setPasswordLength |-> "passwordLength",
   setAutoCloseOnConfirm |-> "autoCloseOnConfirm",
   setAllowConfirmWithoutSelections |-> "allowConfirmWithoutSelections",
   setHideSelections |-> "hideSelections",
   setLanguage |-> "language",
   setThemeMode |-> "themeMode",
   setTheme |-> "theme",
   setKeyboardMapping |-> "keyboardMapping"]

\* the options that do not have their value at construction
changedOptions(p) == {k \in ConfigOptions : p[k] # constructed[k]}

\* C20: a per-option setter changes only its own configuration option: every other
\* option has the same value after the call as before it.
C20_SetterChangesOwnOptionOnly ==
  [][out'.call.op \in DOMAIN OptionOfSetter
       => \A k \in ConfigOptions \ {OptionOfSetter[out'.call.op]} :
            panel'[k] = panel[k]]_vars

\* C20 witness: setAutoCloseOnConfirm has just set its option while at least six other
\* options, closeOnOverlayClick among them, hold the values earlier setters gave them
C20_Witness ==
  /\ out.call.op = "setAutoCloseOnConfirm"
  /\ panel.autoCloseOnConfirm
  /\ ~panel.closeOnOverlayClick
  /\ Cardinality(changedOptions(panel)) >= 7

\* whether the characters of str from position i on are all digits
digitsOnly(str, i) == DigitRun(str, i) = Len(str) - i + 1

\* whether a text is a finite decimal as a whole: around it white space, then an
\* optional sign, digits, and optionally a point and digits, with a digit somewhere
\* and nothing else
IsDecimalText(text) ==
  LET str == Trim(text)
      signed == Len(str) >= 1 /\ str[1] \in {"-", "+"}
      i1 == IF signed THEN 2 ELSE 1
      nInt == DigitRun(str, i1)
      i2 == i1 + nInt
      hasDot == i2 <= Len(str) /\ str[i2] = "."
      nFrac == IF hasDot THEN DigitRun(str, i2 + 1) ELSE 0
      end == IF hasDot THEN i2 + 1 + nFrac ELSE i2
  IN nInt + nFrac > 0 /\ end = Len(str) + 1

\* C21: setAmount with text that is not a finite decimal fails with InvalidAmount and
\* leaves the amount as it was; with a finite number or a decimal text it sets the amount
\* to that value with two decimals.
C21_SetAmountParsesOrFails ==
  [][out'.call.op = "setAmount"
       => LET amount == out'.call.arg
          IN /\ (amount.type = "string" /\ ~IsDecimalText(amount.str))
                  => /\ out'.threw = "InvalidAmount"
                     /\ dom'.amountText = dom.amountText
             /\ (amount.type = "number" /\ amount.kind = "finite")
                  => /\ out'.threw = ""
                     /\ dom'.amountText = ToFixed2(amount.v)
             /\ (amount.type = "string" /\ IsDecimalText(amount.str))
                  => /\ out'.threw = ""
                     /\ dom'.amountText = ToFixed2(ParseFloat(Trim(amount.str)).v)]_vars

\* C22: setSelectionSections(X) followed by setSelectionSections(undefined) leaves the
\* Selection Store as it is after construction: no sections, no selected items, no legacy
\* tree, no selected method, the default field mapping and both custom-data flags cleared.
C22_SetThenUnsetSectionsIsFresh ==
  [][(/\ out.call.op = "setSelectionSections" /\ out.call.arg.data # None
      /\ out'.call.op = "setSelectionSections" /\ out'.call.arg.data = None)
       => storeOf(panel') = storeOf(constructed)]_vars

\* the items selected in the section of the given index, as a set of object identities
selectedRefs(p, sectionIndex) ==
  LET sel == MapGet(p.selectedItems, sectionIndex)
  IN {sel[n].ref : n \in 1..Len(sel)}

\* the step is a tap on an item of a multi-select section
multiToggle ==
  /\ out'.call.op = "selectionItemClick"
  /\ out'.call.arg.sec + 1 <= Len(panel.selectionSections)
  /\ panel.selectionSections[out'.call.arg.sec + 1].multiple

\* C23: in a multi-select section a tap on an item changes the membership of that item
\* only (the other members of the section and the other sections keep theirs), and a
\* second tap on the same item restores the selected set held before the first.
C23_MultiToggleInvolution ==
  [][multiToggle
       => LET sec == out'.call.arg.sec
              idx == out'.call.arg.idx
              item == panel.selectionSections[sec + 1].items[idx + 1].ref
              before == selectedRefs(panel, sec)
              again == selectionItemClick(panel' @@ dom' @@ noOutput, sec, idx)
          IN /\ selectedRefs(panel', sec) =
                  (IF item \in before THEN before \ {item} ELSE before \cup {item})
             /\ \A other \in 0..(Len(panel.selectionSections) - 1) \ {sec} :
                  selectedRefs(panel', other) = selectedRefs(panel, other)
             /\ selectedRefs(again, sec) = before]_vars

\* C23 witness: a tap has just removed one of two selected items of a multi-select
\* section, the other one staying selected
C23_Witness ==
  /\ out.call.op = "selectionItemClick"
  /\ out.call.arg.sec + 1 <= Len(panel.selectionSections)
  /\ panel.selectionSections[out.call.arg.sec + 1].multiple
  /\ Cardinality(selectedRefs(panel, out.call.arg.sec)) = 1
  /\ panel.selectionSections[out.call.arg.sec + 1].items[out.call.arg.idx + 1].ref
       \notin selectedRefs(panel, out.call.arg.sec)

\* the current selection: the selected items of every section and the selected legacy
\* method, by object identity
selectionOf(p) ==
  [items |-> UNION {{<<i, r>> : r \in selectedRefs(p, i)} : i \in DOMAIN p.selectedItems},
   method |-> IF p.selectedMethod = None THEN None ELSE Some(p.selectedMethod[1].ref)]

\* C24: a tap on a section item, a tap on a legacy method, or a call that replaces the
\* selection model, that changes the current selection while the password buffer is not
\* empty, leaves the password buffer empty.
C24_SelectionChangeClearsPassword ==
  [][(/\ panel.currentPassword # <<>>
      /\ out'.call.op \in {"selectionItemClick", "paymentMethodClick",
                           "setSelectionSections", "setPaymentMethods"}
      /\ selectionOf(panel') # selectionOf(panel))
       => panel'.currentPassword = <<>>]_vars

\* the first node without a children property met when the tree is walked depth-first
\* through the children that are arrays
RECURSIVE firstLeaf(_)
firstLeaf(methods) ==
  IF methods = <<>> THEN None
  ELSE LET method == Head(methods)
           below == CASE method.children.kind = "none" -> Some(method)
                      [] method.children.kind = "array" -> firstLeaf(method.children.list)
                      [] OTHER -> None
       IN IF below # None THEN below ELSE firstLeaf(Tail(methods))

\* C25: setPaymentMethods(methods) replaces the tree, leaves the expanded, loading and
\* cached-children sets empty, and sets the selected method to the first leaf in
\* depth-first order, or to none when the tree has no leaf.
C25_SetMethodsResetsTreeState ==
  [][out'.call.op = "setPaymentMethods"
       => LET methods == IF out'.call.arg.data = None THEN <<>>
                         ELSE out'.call.arg.data[1]
          IN /\ panel'.paymentMethods = methods
             /\ panel'.expandedGroups = {}
             /\ panel'.loadingGroups = {}
             /\ DOMAIN panel'.loadedChildren = {}
             /\ panel'.selectedMethod = firstLeaf(methods)]_vars

\* C25 witness: setPaymentMethods has just replaced a tree that had a group expanded
\* with cached children, and selected a leaf found below the first level
C25_Witness ==
  /\ out.call.op = "setPaymentMethods"
  /\ hist.replaced.expanded /\ hist.replaced.cached
  /\ panel.selectedMethod = Some(LeafX)
  /\ panel.paymentMethods[1].children.kind = "array"

\* C26: the configured password length is within 4..12 in every reachable state,
\* whatever value setPasswordLength, setConfig or the password-length attribute supplies.
C26_PasswordLengthInRange == panel.passwordLength \in 4..12

\* the keyboard mapping a call passes, if it passes one
mappingPassed(call) ==
  IF call.op = "setKeyboardMapping" THEN Some(call.arg)
  ELSE IF call.op = "setConfig" /\ Has(call.arg, "keyboardMapping")
  THEN Some(call.arg["keyboardMapping"])
  ELSE None

\* C27: a keyboard mapping that has not exactly 10 entries, passed to setKeyboardMapping
\* or inside setConfig, is rejected with an error raised by the call, and the call leaves
\* the keyboard mapping and every other configuration option unchanged.
C27_InvalidMappingRejectedWhole ==
  [][(mappingPassed(out'.call) # None /\ Len(mappingPassed(out'.call)[1]) # 10)
       => /\ out'.threw = "InvalidKeyboardMapping"
          /\ \A k \in ConfigOptions : panel'[k] = panel[k]]_vars

\* how many deliveries of the step went to the handler for events of the type
deliveredTo(o, type, handler) ==
  Cardinality({n \in 1..Len(o.delivered) :
                 o.delivered[n] = [handler |-> handler, type |-> type]})

\* how many events of the type the step emitted
emittedOf(o, type) == Cardinality({n \in 1..Len(o.emitted) : o.emitted[n].type = type})

\* whether the handler is registered for the event
registered(d, event, handler) ==
  \E n \in 1..Len(d.listeners) : d.listeners[n] = [event |-> event, handler |-> handler]

\* C28: registering the same handler for the same event again with on() is the same as
\* registering it once: every emitted event invokes each registered handler exactly
\* once, however often on() registered it, and one off() removes it, so that it is not
\* invoked afterwards.
C28_OnIsIdempotent ==
  [][/\ \A event \in {"confirm", "close"}, handler \in Handlers :
          deliveredTo(out', event, handler) =
            (IF registered(dom', event, handler) THEN emittedOf(out', event) ELSE 0)
     /\ out'.call.op = "on"
          => /\ registered(dom', out'.call.arg.event, out'.call.arg.handler)
             /\ \A event \in {"confirm", "close"}, handler \in Handlers :
                  [event |-> event, handler |-> handler] # out'.call.arg
                    => (registered(dom', event, handler) <=> registered(dom, event, handler))
     /\ out'.call.op = "off"
          => ~registered(dom', out'.call.arg.event, out'.call.arg.handler)]_vars

\* C28 witness: a close event has just invoked, once, a handler that on() registered
\* more than once
C28_Witness ==
  /\ [event |-> "close", handler |-> "h1"] \in hist.repeated
  /\ emittedOf(out, "close") = 1
  /\ deliveredTo(out, "close", "h1") = 1

\* C29: a drag whose last movement was upward does not close the panel through the
\* velocity clause: released with a displacement that does not exceed the distance
\* threshold it bounces back and the panel stays open, whatever its velocity was.
C29_UpwardReleaseBounces ==
  [][(/\ releasesDrag
      /\ hist.pointer.dir = "up"
      /\ (panel.currentY - panel.startY) * 100
           <= effectiveThreshold(panel, out'.call.arg.panelHeight))
       => /\ panel'.isOpen /\ closeEventsOfStep = {}
          /\ dom'.panelTransform = None /\ dom'.overlayOpacity = None]_vars

\* C29 witness: a drag that moved down and then up, faster than velocityThreshold and
\* still below its start, was released within the distance threshold and bounced back
C29_Witness ==
  /\ out.call.op = "dragEnd" /\ out.call.arg.dragging
  /\ hist.pointer.dir = "up"
  /\ Faster(out.call.arg.velocity, panel.velocityThreshold)
  /\ out.call.arg.deltaY > 0
  /\ out.call.arg.deltaY * 100 <= effectiveThreshold(panel, out.call.arg.panelHeight)
  /\ panel.isOpen /\ out.emitted = <<>>

\* C30: while a drag is in progress a further pointer-down is ignored: the start
\* position, the start time, the last sample and the velocity of the drag in progress
\* are unchanged by it, and the drag is still in progress.
C30_SecondPointerDownIgnored ==
  [][(out'.call.op = "dragStart" /\ panel.isDragging)
       => /\ panel'.isDragging
          /\ panel'.startY = panel.startY /\ panel'.startTime = panel.startTime
          /\ panel'.currentY = panel.currentY
          /\ panel'.lastY = panel.lastY /\ panel'.lastTime = panel.lastTime
          /\ panel'.velocity = panel.velocity]_vars

\* C31: the recognizer enters Dragging only by a pointer-down on the drag handle, the
\* header or the panel body while the panel is open and swipe-to-close is enabled; a
\* pointer-down on the content, the action buttons, the keyboard or the close button
\* never starts a drag; and the recognizer is never Dragging while the panel is closed.
C31_DragStartsOnlyFromDragSurfaces ==
  [][/\ (~panel.isDragging /\ panel'.isDragging)
          => /\ out'.call.op = "dragStart"
             /\ out'.call.arg.target \in DragSurfaces
             /\ panel.isOpen /\ panel.allowSwipeToClose
     /\ (out'.call.op = "dragStart" /\ out'.call.arg.target \in PassThroughSurfaces)
          => panel'.isDragging = panel.isDragging
     /\ ~panel'.isOpen => ~panel'.isDragging]_vars

\* C31 witness: a pointer-down on the header of the open panel has just started a drag
C31_Witness ==
  /\ out.call.op = "dragStart" /\ out.call.arg.target = "header"
  /\ panel.isOpen /\ panel.allowSwipeToClose
  /\ panel.isDragging /\ panel.startY = out.call.arg.y

\* the state a handler would start from after the step
afterStep == panel' @@ dom' @@ noOutput

deferredAt(p, g) ==
  /\ g + 1 <= Len(p.paymentMethods)
  /\ HasChildren(p.paymentMethods[g + 1])
  /\ p.paymentMethods[g + 1].children.kind # "array"

\* C33: no group is both loading and expanded in any reachable state; a group with a
\* deferred provider goes from collapsed to expanded only when its own provider call is
\* fulfilled, which also ends its loading and caches the children, or by a header click
\* once its children are cached; and a header click on an expanded group collapses it
\* and keeps the cached children.
C33_LoadingExcludesExpanded ==
  [][/\ panel'.loadingGroups \cap panel'.expandedGroups = {}
     /\ \A g \in {0, 1} :
          /\ (g \notin panel.expandedGroups /\ g \in panel'.expandedGroups
                /\ deferredAt(panel', g))
               => \/ /\ out'.call.op = "providerSettled" /\ out'.call.arg.ok
                     /\ out'.call.arg.group = g
                     /\ out'.call.arg.ref = panel'.paymentMethods[g + 1].ref
                     /\ g \notin panel'.loadingGroups
                     /\ g \in DOMAIN panel'.loadedChildren
                  \/ /\ headerClickOn(g)
                     /\ g \in DOMAIN panel.loadedChildren
          /\ (headerClickOn(g) /\ g \in panel.expandedGroups)
               => /\ g \notin panel'.expandedGroups
                  /\ panel'.loadedChildren = panel.loadedChildren]_vars

\* the provider call that settles in this step was started for a group of a tree that
\* has been replaced since: the group is no longer at its position of the current tree
settlesStaleLoad ==
  /\ out'.call.op = "providerSettled"
  /\ ~(/\ out'.call.arg.group + 1 <= Len(panel.paymentMethods)
       /\ panel.paymentMethods[out'.call.arg.group + 1].ref = out'.call.arg.ref)

\* C34: when a provider call settles, by fulfilment or by rejection, after the tree of
\* its group has been replaced, the current model keeps its cached children, its
\* expanded groups and its loading groups, and the rendered list does not change.
C34_StaleLoadHasNoEffect ==
  [][settlesStaleLoad
       => /\ panel'.loadedChildren = panel.loadedChildren
          /\ panel'.expandedGroups = panel.expandedGroups
          /\ panel'.loadingGroups = panel.loadingGroups
          /\ dom'.list = dom.list]_vars

\* C35: in every reachable state in which nothing is selectable and confirming without
\* selections is not allowed, the password section and the confirm/cancel actions are
\* both hidden; so also right after open() emptied the store, after the host replaced
\* it, and after the option was changed.
C35_GateHidesPasswordAndActions ==
  (~hasSelectable(panel) /\ ~panel.allowConfirmWithoutSelections)
    => /\ dom.passwordSectionDisplay = "none"
       /\ dom.actionsDisplay = "none"

\* the items the list shows as selected, as pairs of section index and item
renderedSelection ==
  {<<dom.list.items[k].sec,
     panel.selectionSections[dom.list.items[k].sec + 1].items[dom.list.items[k].idx + 1].ref>> :
     k \in {j \in 1..Len(dom.list.items) : dom.list.items[j].sel}}

\* the items of all sections, as pairs of section index and position
sectionItemsOf(p) ==
  UNION {{<<n - 1, k - 1>> : k \in 1..Len(p.selectionSections[n].items)} :
           n \in 1..Len(p.selectionSections)}

\* C36: in every state, which is the state after a host call or a user action, the
\* list that is shown draws the current Selection Store: the sections when the section
\* model is not empty, with every item of every section and with exactly the selected
\* items of the store marked selected, and the legacy tree when that is not empty,
\* with an item marked selected only when the store has a selected method.
C36_ListProjectsStore ==
  ~panel.hideSelections
    => /\ (panel.selectionSections # <<>> /\ panel.paymentMethods = <<>>)
            => /\ dom.list.kind = "sections"
               /\ {<<dom.list.items[k].sec, dom.list.items[k].idx>> :
                     k \in 1..Len(dom.list.items)} = sectionItemsOf(panel)
               /\ renderedSelection = selectionOf(panel).items
       /\ panel.paymentMethods # <<>>
            => /\ dom.list.kind = "methods"
               /\ (\E k \in 1..Len(dom.list.items) : dom.list.items[k].sel)
                    => panel.selectedMethod # None

\* C37: removeAllListeners(event) removes the handlers of that event and keeps those of
\* the other event, removeAllListeners() removes the handlers of all events, and
\* neither changes whether the panel is open, the amount shown, an option of the
\* configuration, or the Selection Store.
C37_RemoveAllListenersRemovesOnlyHandlers ==
  [][out'.call.op = "removeAllListeners"
       => /\ \A event \in {"confirm", "close"}, handler \in Handlers :
               IF out'.call.arg = None \/ out'.call.arg = Some(event)
               THEN ~registered(dom', event, handler)
               ELSE registered(dom', event, handler) <=> registered(dom, event, handler)
          /\ panel'.isOpen = panel.isOpen
          /\ dom'.amountText = dom.amountText
          /\ \A k \in ConfigOptions : panel'[k] = panel[k]
          /\ storeOf(panel') = storeOf(panel)]_vars

\* C38: in every reachable state the password buffer is strictly shorter than the
\* configured password length, by whatever route the length was changed, so that a
\* further key press is accepted.
C38_BufferShorterThanLength == Len(panel.currentPassword) < panel.passwordLength

\* C39: once the animation frame requested by open() has run, the panel and the overlay
\* carry the show class exactly when the panel is open: no call made while the panel is
\* open hides them, and none leaves the panel open and not shown.
C39_ShownIffOpen ==
  dom.rafPending = 0 => (panel.isOpen <=> (dom.panelShow /\ dom.overlayShow))

\* C40: after setCloseThreshold(t), setVelocityThreshold(t) or
\* setCloseThresholdPercent(p) with a non-negative argument, zero included, the option
\* holds the argument (p limited to 0..1), and the same call made again leaves the
\* state as it is.
C40_ThresholdSettersHoldValue ==
  [][/\ (out'.call.op = "setCloseThreshold" /\ out'.call.arg >= 0)
          => /\ panel'.closeThreshold = out'.call.arg
             /\ setCloseThreshold(afterStep, out'.call.arg) = afterStep
     /\ (out'.call.op = "setVelocityThreshold" /\ out'.call.arg >= 0)
          => /\ panel'.velocityThreshold = out'.call.arg
             /\ setVelocityThreshold(afterStep, out'.call.arg) = afterStep
     /\ (out'.call.op = "setCloseThresholdPercent" /\ out'.call.arg >= 0)
          => /\ panel'.closeThresholdPercent = Max(0, Min(100, out'.call.arg))
             /\ setCloseThresholdPercent(afterStep, out'.call.arg) = afterStep]_vars

====
